---- MODULE Spec2Model ----
(***************************************************************************)
(* Model of the move-review engine of chess-review-v2:                     *)
(*   src/src/lib/chess-analysis.ts   analyzeGame, classifyMove,            *)
(*                                    materialBalance,                      *)
(*                                    maxMaterialLossAfterMove              *)
(*   src/src/lib/api.ts              evaluatePosition                       *)
(*   src/src/lib/opening-book.ts     normalizeFen, isBookPosition,          *)
(*                                    loadBook, getOpeningBook              *)
(* The rules library (chess.js) is modelled by a move generator over an    *)
(* 8x8 board; squares are <<file, rank>> pairs, a FEN is the tuple of its  *)
(* six space-separated fields.                                              *)
(***************************************************************************)
EXTENDS Integers, Sequences, FiniteSets, TLC

\* ------------------------------------------------------------------ bounds

\* Longest game (in plies) that is submitted for review.
MaxPlies == 3

\* Largest centipawn loss handed to classifyMove when it is exercised alone.
MaxCpLoss == 260

\* Number of getOpeningBook calls made while the page lives.
MaxCallers == 3

\* Longest main line the navigator is given.
MaxMoves == 2

\* Longest exploration line built in the navigator.
MaxNodes == 2

\* Most live-engine requests the result page has in flight at a time.
MaxRequests == 2

\* Most evaluation requests of dropped moves in flight at a time.
MaxPending == 1

\* ----------------------------------------------------------- rules library

Squares == (1..8) \X (1..8)

NoPiece == [type |-> "-", color |-> "-"]

BackRank == <<"r", "n", "b", "q", "k", "b", "n", "r">>

StartBoard ==
    [sq \in (1..8) \X {1, 2, 7, 8} |->
        [type  |-> IF sq[2] \in {2, 7} THEN "p" ELSE BackRank[sq[1]],
         color |-> IF sq[2] <= 2 THEN "w" ELSE "b"]]

\* new Chess(): the standard start position.
NewChess ==
    [board |-> StartBoard, turn |-> "w", castling |-> "KQkq", ep |-> "-",
     half |-> 0, full |-> 1]

FileNames == <<"a", "b", "c", "d", "e", "f", "g", "h">>

Digits == <<"1", "2", "3", "4", "5", "6", "7", "8">>

WhiteChars == [p |-> "P", n |-> "N", b |-> "B", r |-> "R", q |-> "Q", k |-> "K"]

\* The FEN letter of a piece: upper case for White, the type for Black.
PieceChar(piece) ==
    IF piece.color = "w" THEN WhiteChars[piece.type] ELSE piece.type

\* One rank of the FEN piece placement, from file `file` on, after a run of
\* `run` empty squares.
RECURSIVE RankString(_, _, _, _)
RankString(board, rank, file, run) ==
    LET gap == IF run > 0 THEN Digits[run] ELSE ""
    IN  IF file > 8 THEN gap
        ELSE IF <<file, rank>> \in DOMAIN board
             THEN gap \o PieceChar(board[<<file, rank>>])
                      \o RankString(board, rank, file + 1, 0)
             ELSE RankString(board, rank, file + 1, run + 1)

\* The FEN piece placement: ranks 8 down to 1, separated by "/".
RECURSIVE Placement(_, _)
Placement(board, rank) ==
    IF rank = 1 THEN RankString(board, 1, 1, 0)
    ELSE RankString(board, rank, 1, 0) \o "/" \o Placement(board, rank - 1)

SquareName(sq) == FileNames[sq[1]] \o Digits[sq[2]]

\* chess.fen(): the six space-separated fields of the FEN string, in order.
Fen(chess) ==
    <<Placement(chess.board, 8), chess.turn, chess.castling,
      IF chess.ep = "-" THEN "-" ELSE SquareName(chess.ep),
      chess.half, chess.full>>

\* chess.get(square): the piece on the square, NoPiece when it is empty.
Get(chess, sq) == IF sq \in DOMAIN chess.board THEN chess.board[sq] ELSE NoPiece

Other(color) == IF color = "w" THEN "b" ELSE "w"

Step(sq, d, k) == <<sq[1] + k * d[1], sq[2] + k * d[2]>>

KnightSteps ==
    {<<1, 2>>, <<2, 1>>, <<2, -1>>, <<1, -2>>,
     <<-1, -2>>, <<-2, -1>>, <<-2, 1>>, <<-1, 2>>}

RookDirs == {<<1, 0>>, <<-1, 0>>, <<0, 1>>, <<0, -1>>}

BishopDirs == {<<1, 1>>, <<1, -1>>, <<-1, 1>>, <<-1, -1>>}

\* Squares a sliding piece on sq reaches along direction d.
Ray(chess, sq, d) ==
    {Step(sq, d, k) : k \in {k \in 1..7 :
        /\ Step(sq, d, k) \in Squares
        /\ \A j \in 1..(k - 1) : Step(sq, d, j) \notin DOMAIN chess.board}}

\* Squares the piece on sq may move to (own pieces excluded, checks ignored).
Targets(chess, sq) ==
    LET p == chess.board[sq]
        fwd == IF p.color = "w" THEN 1 ELSE -1
        home == IF p.color = "w" THEN 2 ELSE 7
        free(t) == t \in Squares /\ t \notin DOMAIN chess.board
        enemy(t) == t \in DOMAIN chess.board /\ chess.board[t].color # p.color
        raw ==
            CASE p.type = "n" -> {Step(sq, d, 1) : d \in KnightSteps}
              [] p.type = "k" -> {Step(sq, d, 1) : d \in RookDirs \cup BishopDirs}
              [] p.type = "r" -> UNION {Ray(chess, sq, d) : d \in RookDirs}
              [] p.type = "b" -> UNION {Ray(chess, sq, d) : d \in BishopDirs}
              [] p.type = "q" ->
                    UNION {Ray(chess, sq, d) : d \in RookDirs \cup BishopDirs}
              [] OTHER ->
                    {t \in {Step(sq, <<0, fwd>>, 1)} : free(t)}
                    \cup {t \in {Step(sq, <<0, fwd>>, 2)} :
                            /\ sq[2] = home
                            /\ free(Step(sq, <<0, fwd>>, 1))
                            /\ free(t)}
                    \cup {t \in {Step(sq, <<1, fwd>>, 1), Step(sq, <<-1, fwd>>, 1)} :
                            enemy(t) \/ (t \in Squares /\ t = chess.ep)}
    IN  {t \in raw : t \in Squares /\ ~(t \in DOMAIN chess.board
                                        /\ chess.board[t].color = p.color)}

\* One entry of chess.moves({ verbose: true }).  `captured` is the type of the
\* piece taken ("-" for a quiet move); an en-passant capture takes a pawn that
\* does not stand on `to`.
VerboseMove(chess, sq, t) ==
    [color |-> chess.turn, from |-> sq, to |-> t,
     piece |-> chess.board[sq].type,
     captured |-> IF t \in DOMAIN chess.board THEN chess.board[t].type
                  ELSE IF chess.board[sq].type = "p" /\ t = chess.ep THEN "p"
                  ELSE "-"]

\* chess.moves({ verbose: true }): the moves of the side to move.
Moves(chess) ==
    UNION {{VerboseMove(chess, sq, t) : t \in Targets(chess, sq)} :
        sq \in {s \in DOMAIN chess.board : chess.board[s].color = chess.turn}}

\* chess.move(m): the position after playing the verbose move m.
MakeMove(chess, m) ==
    LET fwd == IF m.color = "w" THEN 1 ELSE -1
        epTaken == IF m.piece = "p" /\ m.captured = "p" /\ m.to \notin DOMAIN chess.board
                   THEN {Step(m.to, <<0, -fwd>>, 1)} ELSE {}
        kept == (DOMAIN chess.board \ ({m.from} \cup epTaken)) \cup {m.to}
    IN  [board |-> [sq \in kept |->
                        IF sq = m.to THEN chess.board[m.from] ELSE chess.board[sq]],
         turn |-> Other(chess.turn),
         castling |-> chess.castling,
         ep |-> IF m.piece = "p" /\ m.to[2] - m.from[2] \in {2, -2}
                THEN Step(m.from, <<0, fwd>>, 1) ELSE "-",
         half |-> IF m.piece = "p" \/ m.captured # "-" THEN 0 ELSE chess.half + 1,
         full |-> IF chess.turn = "b" THEN chess.full + 1 ELSE chess.full]

\* The SAN tokens the model reads, with the squares each one names.
SanSquares ==
    [e4 |-> <<<<5, 2>>, <<5, 4>>>>,  e3 |-> <<<<5, 2>>, <<5, 3>>>>,
     e5 |-> <<<<5, 7>>, <<5, 5>>>>,  e6 |-> <<<<5, 7>>, <<5, 6>>>>,
     Nf3 |-> <<<<7, 1>>, <<6, 3>>>>, Nc6 |-> <<<<2, 8>>, <<3, 6>>>>,
     Na6 |-> <<<<2, 8>>, <<1, 6>>>>, Bb5 |-> <<<<6, 1>>, <<2, 5>>>>,
     Bxa6 |-> <<<<6, 1>>, <<1, 6>>>>]

NoMove == [san |-> "illegal"]

\* The legal move a SAN token denotes in the position, NoMove when it denotes
\* none (chess.move throws).
SanMove(chess, token) ==
    IF token \notin DOMAIN SanSquares THEN NoMove
    ELSE LET cand == {m \in Moves(chess) :
                        /\ m.from = SanSquares[token][1]
                        /\ m.to = SanSquares[token][2]}
         IN  IF cand = {} THEN NoMove
             ELSE LET m == CHOOSE x \in cand : TRUE
                  IN  [san |-> token, color |-> m.color, from |-> m.from,
                       to |-> m.to, piece |-> m.piece, captured |-> m.captured]

\* The one element of a set of at most one sequence, <<>> for the empty set.
\* Values are bound by a quantifier over a singleton wherever a position is
\* computed once and read many times.
Only(S) == IF S = {} THEN <<>> ELSE CHOOSE x \in S : TRUE

\* The position chess.move(token) leads to; no position when it throws.
Played(chess, token) ==
    {MakeMove(chess, m) : m \in {SanMove(chess, token)} \ {NoMove}}

\* Replays SAN tokens from `chess`; the list of positions visited (the first
\* is `chess`), cut at the first token that is no legal move.
RECURSIVE Replay(_, _)
Replay(chess, tokens) ==
    IF tokens = <<>> THEN <<chess>>
    ELSE <<chess>>
         \o Only({Replay(c, Tail(tokens)) : c \in Played(chess, Head(tokens))})

\* chess.loadPgn(pgn) followed by chess.history({ verbose: true }): the moves
\* read, cut at the first token that is no legal move.
History(chess, tokens) ==
    Only({[k \in 1..(Len(ps) - 1) |-> SanMove(ps[k], tokens[k])] :
            ps \in {Replay(chess, tokens)}})

\* Mutant: loadPgn accepts every PGN and keeps the moves it could read.
PgnParsesAlways(tokens) == TRUE

\* loadPgn throws when a token of the PGN is no legal move.
PgnParses(tokens) == Len(History(NewChess, tokens)) = Len(tokens)

\* ------------------------------------------------------------------ inputs

Min(a, b) == IF a <= b THEN a ELSE b

\* Move sequences of the games reviewed: the Ruy Lopez, a line that leaves a
\* knight en prise and loses it, and a line that reaches a book position by
\* another move order.
GameLines ==
    {<<"e4", "e5", "Nf3", "Nc6", "Bb5">>,
     <<"e4", "Na6", "Bxa6">>,
     <<"Nf3", "e6", "e3">>}

\* The PGNs submitted: every opening of a game line, and one whose second
\* token is no legal move.
Pgns ==
    UNION {{SubSeq(l, 1, n) : n \in 0..Min(Len(l), MaxPlies)} : l \in GameLines}
    \cup {<<"e4", "e4">>}

\* Contents of the opening-book tables: no line at all, or the Ruy Lopez and
\* a second line.
BookSources ==
    {{},
     {<<"e4", "e5", "Nf3", "Nc6", "Bb5">>, <<"e3", "e6", "Nf3">>}}

Null == <<"null">>

\* What the evaluator may answer for a position: a centipawn evaluation and
\* whether a best move comes with it.
Responses ==
    {[evaluation |-> e, hasBest |-> TRUE] : e \in {0, 15, 45, 165, 3000}}
    \cup {[evaluation |-> e, hasBest |-> FALSE] : e \in {3000}}

\* The answer to the request for FEN k: the best move is named after the
\* position it belongs to.
EvalResult(k, r) ==
    [evaluation |-> r.evaluation,
     bestMove |-> IF r.hasBest THEN <<"best", k>> ELSE Null]

Range(seq) == {seq[k] : k \in DOMAIN seq}

\* Every position the games and the book lines visit.
KnownPositions ==
    UNION {Range(Replay(NewChess, l)) : l \in GameLines \cup UNION BookSources}

KnownFens == [c \in KnownPositions |-> Fen(c)]

\* new Chess(fen): the position the FEN describes.
ChessOf(fen) == CHOOSE c \in KnownPositions : KnownFens[c] = fen

\* chess.moves({ verbose: true }), computed once per position.
KnownMoves == [c \in KnownPositions |-> Moves(c)]

\* ------------------------------------------------------------ opening book

\* normalizeFen: the first four fields of the FEN (the clocks are dropped).
normalizeFen(fen) == SubSeq(fen, 1, 4)

\* The move numbers a reference line may carry.
MoveNumbers == {"1.", "2.", "3."}

\* pgnSequence.replace(/\d+\.\s*/g, '').split(/\s+/).filter(Boolean): the
\* words of the line without its move numbers.
Tokens(words) == SelectSeq(words, LAMBDA w : w \notin MoveNumbers)

\* token === '*' || token.match(/^(1-0|0-1|1\/2)$/)
StopsReplay(token) == token = "*" \/ token \in {"1-0", "0-1", "1/2"}

\* Mutant: a token that is no legal move is skipped and the replay goes on.
RECURSIVE ReplayTokensSkipping(_, _)
ReplayTokensSkipping(chess, tokens) ==
    IF tokens = <<>> \/ StopsReplay(Head(tokens)) THEN <<chess>>
    ELSE IF Played(chess, Head(tokens)) = {}
         THEN ReplayTokensSkipping(chess, Tail(tokens))
         ELSE <<chess>>
              \o Only({ReplayTokensSkipping(c, Tail(tokens)) :
                          c \in Played(chess, Head(tokens))})

\* The token loop of one reference line: the positions visited (the first is
\* `chess`), up to the first token that stops the replay or that chess.move
\* throws on.
RECURSIVE ReplayTokens(_, _)
ReplayTokens(chess, tokens) ==
    IF tokens = <<>> \/ StopsReplay(Head(tokens)) THEN <<chess>>
    ELSE <<chess>>
         \o Only({ReplayTokens(c, Tail(tokens)) : c \in Played(chess, Head(tokens))})

\* The positions one line of a table adds: none when its move column is
\* missing or empty, else the start position and every position replayed.
LinePositions(words) ==
    IF words = <<>> THEN {}
    ELSE {normalizeFen(Fen(c)) : c \in Range(ReplayTokens(NewChess, Tokens(words)))}

\* loadBook: every position met while replaying each reference line from the
\* start position, normalised.
loadBook(lines) == UNION {LinePositions(words) : words \in lines}

isBookPosition(fen, bookSet) == normalizeFen(fen) \in bookSet

\* --------------------------------------------------------- classification

PIECE_VALUES == [p |-> 1, n |-> 3, b |-> 3, r |-> 5, q |-> 9, k |-> 0]

Max(a, b) == IF a >= b THEN a ELSE b

\* Mutant: the cpLoss = 0 test comes before the overrides.
classifyMoveBestFirst(cpLoss, isSacrifice, isPunishment) ==
    IF cpLoss = 0 THEN "Best"
    ELSE IF isSacrifice /\ cpLoss <= 15 THEN "Brilliant"
    ELSE IF isSacrifice /\ cpLoss <= 30 THEN "Great"
    ELSE IF isPunishment /\ cpLoss <= 15 THEN "Great"
    ELSE IF cpLoss <= 15 THEN "Excellent"
    ELSE IF cpLoss <= 30 THEN "Good"
    ELSE IF cpLoss <= 60 THEN "Inaccuracy"
    ELSE IF cpLoss <= 120 THEN "Mistake"
    ELSE IF cpLoss <= 250 THEN "Miss"
    ELSE "Blunder"

classifyMove(cpLoss, isSacrifice, isPunishment) ==
    IF isSacrifice /\ cpLoss <= 15 THEN "Brilliant"
    ELSE IF isSacrifice /\ cpLoss <= 30 THEN "Great"
    ELSE IF isPunishment /\ cpLoss <= 15 THEN "Great"
    ELSE IF cpLoss = 0 THEN "Best"
    ELSE IF cpLoss <= 15 THEN "Excellent"
    ELSE IF cpLoss <= 30 THEN "Good"
    ELSE IF cpLoss <= 60 THEN "Inaccuracy"
    ELSE IF cpLoss <= 120 THEN "Mistake"
    ELSE IF cpLoss <= 250 THEN "Miss"
    ELSE "Blunder"

\* The sum of PIECE_VALUES over the pieces of one colour, the squares of
\* chess.board() taken row by row from the k-th on.
RECURSIVE SideMaterial(_, _, _)
SideMaterial(chess, k, color) ==
    IF k > 64 THEN 0
    ELSE (IF Get(chess, <<((k - 1) % 8) + 1, 8 - ((k - 1) \div 8)>>).color = color
          THEN PIECE_VALUES[Get(chess, <<((k - 1) % 8) + 1,
                                         8 - ((k - 1) \div 8)>>).type]
          ELSE 0)
         + SideMaterial(chess, k + 1, color)

\* The two sums of materialBalance's loop over chess.board(), once per
\* position.
KnownMaterial ==
    [c \in KnownPositions |->
        [white |-> SideMaterial(c, 1, "w"),
         black |-> SideMaterial(c, 1, "b")]]

materialBalance(chess, forWhite) ==
    LET white == KnownMaterial[chess].white
        black == KnownMaterial[chess].black
    IN  IF forWhite THEN white - black ELSE black - white

\* Math.max folded over the values S, starting from 0.
MaxOf(S) == CHOOSE x \in S \cup {0} : \A y \in S : y <= x

\* Mutant: a capture is counted when it takes a piece of the mover.
maxMaterialLossOfMover(chess, forWhite) ==
    LET ourColor == IF forWhite THEN "w" ELSE "b"
        counted == {m \in KnownMoves[chess] :
                       /\ m.captured # "-"
                       /\ Get(chess, m.to) # NoPiece
                       /\ Get(chess, m.to).color = ourColor}
    IN  MaxOf({PIECE_VALUES[m.captured] : m \in counted})

\* A capture is counted only when the piece standing on its target square is
\* not of the mover's colour.
maxMaterialLossAfterMove(chess, forWhite) ==
    LET ourColor == IF forWhite THEN "w" ELSE "b"
        counted == {m \in KnownMoves[chess] :
                       /\ m.captured # "-"
                       /\ Get(chess, m.to) # NoPiece
                       /\ Get(chess, m.to).color # ourColor}
    IN  MaxOf({PIECE_VALUES[m.captured] : m \in counted})

\* Mutant: the loss is taken from White's side whoever moved.
CpLossOneSided(isWhite, evalBefore, evalAfter) == Max(0, evalBefore - evalAfter)

\* cpLoss of a ply from the evaluations before and after it.
CpLoss(isWhite, evalBefore, evalAfter) ==
    IF isWhite THEN Max(0, evalBefore - evalAfter)
    ELSE Max(0, evalAfter - evalBefore)

IsSacrifice(b1, b2, maxLoss) == (b2 - maxLoss - b1) <= -2

IsPunishment(ply, prevLoss, cpLoss) == ply > 0 /\ prevLoss >= 120 /\ cpLoss <= 15

\* Mutant: Good is missing from the list of classes that get a best move.
NeedsBestMoveNoGood(classification) ==
    classification \in {"Inaccuracy", "Mistake", "Miss", "Blunder", "Excellent"}

NeedsBestMove(classification) ==
    classification \in {"Inaccuracy", "Mistake", "Miss", "Blunder", "Excellent", "Good"}

\* Rationals as <<numerator, denominator>> with a positive denominator.
RatLe(a, b) == a[1] * b[2] <= b[1] * a[2]

RatEq(a, b) == a[1] * b[2] = b[1] * a[2]

\* Mutant: the accuracy is not floored at 0.
AccuracyUnfloored(total, count) ==
    LET avgCpLoss == IF count # 0 THEN <<total, count>> ELSE <<0, 1>>
        tenth == <<avgCpLoss[1], avgCpLoss[2] * 10>>
    IN  <<100 * tenth[2] - tenth[1], tenth[2]>>

\* accuracy = max(0, 100 - avgCpLoss / 10), avgCpLoss = total / count (0 when
\* there is no review).
Accuracy(total, count) ==
    LET avgCpLoss == IF count # 0 THEN <<total, count>> ELSE <<0, 1>>
        tenth == <<avgCpLoss[1], avgCpLoss[2] * 10>>
        diff == <<100 * tenth[2] - tenth[1], tenth[2]>>
    IN  IF RatLe(diff, <<0, 1>>) THEN <<0, 1>> ELSE diff

\* ------------------------------------------------------------------- state

VARIABLES
    pgn,          \* analyzeGame's argument: the SAN tokens of the PGN
    bookSrc,      \* the reference lines the opening-book tables hold
    pc,           \* where analyzeGame stands
    error,        \* the error analyzeGame (or its Promise.all) rejected with
    history,      \* chess.history({ verbose: true })
    fens,         \* the pre-computed FENs, indexed from 0
    req,          \* per FEN index: the state of its evaluatePosition call
    served,       \* per FEN index: what the evaluator answered
    slots,        \* Promise.all's result array, filled as promises fulfil
    done,         \* the progress counter
    progress,     \* the onProgress calls made, in order
    evalResults,  \* the awaited result of Promise.all
    bookAsked,    \* whether getOpeningBook was called
    book,         \* the opening-book set analyzeGame received
    i,            \* the classification loop's index
    inBook,
    reviews,
    totalCpLoss,
    trail,        \* per classified ply: the loop's intermediate values
    response,     \* the AnalysisResponse returned
    call,         \* classifyMove exercised alone: its arguments and result
    bookPositions,   \* opening-book.ts: the cached set (null until loaded)
    loadingPromise,  \* opening-book.ts: the promise of the load in flight
    loads,           \* how many times loadBook was started
    fetched,         \* per table: how many times it was fetched
    part,            \* per table: the state of its fetch-read-parse task
    positions,       \* loadBook's local set
    read,            \* per table: the reference lines its task read
    caller,          \* per getOpeningBook call: where its caller stands
    data,                 \* useChessGame's argument (null until loaded)
    currentMoveIndex,
    isVariation,
    variationMoves,
    variationIndex,
    variationBaseIndex,
    orientation,          \* the side shown at the bottom of the board
    showTimestamps,       \* whether the move list shows the clocks
    last,            \* the navigator operation called last: its arguments,
                     \* its return value and the state it was called in
    engineLines,     \* result page: the engine lines shown, with the request
                     \* whose response set them
    engineDepth,
    isCalculating,
    liveRequests,    \* the live-engine requests in flight, each with the
                     \* active flag of its effect run
    effectDeps,      \* the position and depth the live-engine effect ran for
    nodeRequests,    \* the evaluation requests of onPieceDrop in flight, each
                     \* with the values its callback closed over
    handled          \* the page handler or callback that ran last

analysisVars ==
    <<pgn, bookSrc, pc, error, history, fens, req, served, slots, done, progress,
      evalResults, bookAsked, book, i, inBook, reviews, totalCpLoss, trail,
      response, call>>

bookVars ==
    <<bookPositions, loadingPromise, loads, fetched, part, positions, read, caller>>

navVars ==
    <<data, currentMoveIndex, isVariation, variationMoves, variationIndex,
      variationBaseIndex, orientation, showTimestamps, last>>

pageVars ==
    <<engineLines, engineDepth, isCalculating, liveRequests, effectDeps,
      nodeRequests, handled>>

vars == <<analysisVars, bookVars, navVars, pageVars>>

None == "none"

\* An array slot that holds no result yet.
Empty == [pending |-> TRUE]

NoError == <<"none">>

NoResponse == [returned |-> FALSE]

NoBook == [loaded |-> FALSE, positions |-> {}]

NoCall == [cpLoss |-> 0, isSacrifice |-> FALSE, isPunishment |-> FALSE,
           result |-> None]

\* The tables loadBook fetches.
files == <<"a", "b", "c", "d", "e">>

\* The reference lines each table holds.
FileLines ==
    [f \in Range(files) |->
        CASE f = "a" -> {<<"e3", "e6", "Nf3">>}
          [] f = "c" -> {<<"e4", "e5", "Nf3", "Nc6", "Bb5">>}
          [] OTHER -> {}]

Callers == 1..MaxCallers

\* A getOpeningBook call that was not made yet.
NotCalled == [state |-> "idle", path |-> "none", promise |-> "none", got |-> {}]

\* The module state of opening-book.ts before the first call.
BookIdle ==
    /\ bookPositions = NoBook
    /\ loadingPromise = "null"
    /\ loads = 0
    /\ fetched = [f \in Range(files) |-> 0]
    /\ part = [f \in Range(files) |-> "idle"]
    /\ positions = {}
    /\ read = [f \in Range(files) |-> {}]
    /\ caller = [c \in Callers |-> NotCalled]

\* useChessGame(null): no analysis was loaded yet.
NoData == [loaded |-> FALSE, moves |-> <<>>]

\* The state of the navigator as the hooks' initial values give it.
HookInitial ==
    [data |-> NoData, currentMoveIndex |-> 0, isVariation |-> FALSE, variationMoves |-> <<>>,
     variationIndex |-> -1, variationBaseIndex |-> 0, orientation |-> "white",
     showTimestamps |-> FALSE]

NoOperation == [op |-> "none", arg |-> [none |-> TRUE], value |-> "void",
                before |-> HookInitial]

\* useChessGame's useState initial values.
NavIdle ==
    /\ data = NoData
    /\ currentMoveIndex = HookInitial.currentMoveIndex
    /\ isVariation = HookInitial.isVariation
    /\ variationMoves = HookInitial.variationMoves
    /\ variationIndex = HookInitial.variationIndex
    /\ variationBaseIndex = HookInitial.variationBaseIndex
    /\ orientation = HookInitial.orientation
    /\ showTimestamps = HookInitial.showTimestamps
    /\ last = NoOperation

\* No request of the result page.
NoRequest == [fen |-> "none", depth |-> 0]

\* useState<PVLine[]>([]).
NoLines == [of |-> NoRequest, lines |-> <<>>]

NoHandler == [handler |-> "none", arg |-> [none |-> TRUE], returned |-> "void",
              issued |-> 0, request |-> NoRequest]

\* The result page's useState initial values.
PageIdle ==
    /\ engineLines = NoLines
    /\ engineDepth = 14
    /\ isCalculating = FALSE
    /\ liveRequests = {}
    /\ effectDeps = NoRequest
    /\ nodeRequests = {}
    /\ handled = NoHandler

\* The FENs analyzeGame pre-computes: the start position and the position
\* after each move of the history, indexed from 0.
RECURSIVE FenList(_, _)
FenList(chess, moves) ==
    IF moves = <<>> THEN <<Fen(chess)>>
    ELSE <<Fen(chess)>>
         \o Only({FenList(c, Tail(moves)) : c \in {MakeMove(chess, Head(moves))}})

\* Parsing and FEN pre-computation, once per PGN.
Parsed ==
    [p \in Pgns |->
        CHOOSE r \in
            UNION {{[ok |-> PgnParses(p), history |-> h,
                     fens |-> [k \in 0..(Len(l) - 1) |-> l[k + 1]]] :
                        l \in {FenList(NewChess, h)}} :
                            h \in {History(NewChess, p)}} : TRUE]

\* The book set, once per table content.
Books == [src \in BookSources |-> loadBook(src)]

evaluations == [k \in DOMAIN evalResults |-> evalResults[k].evaluation]

Init ==
    /\ pgn \in Pgns
    /\ bookSrc \in BookSources
    /\ pc = "start"
    /\ error = NoError
    /\ history = <<>>
    /\ fens = <<>>
    /\ req = <<>>
    /\ served = <<>>
    /\ slots = <<>>
    /\ done = 0
    /\ progress = <<>>
    /\ evalResults = <<>>
    /\ bookAsked = FALSE
    /\ book = NoBook
    /\ i = 0
    /\ inBook = TRUE
    /\ reviews = <<>>
    /\ totalCpLoss = 0
    /\ trail = <<>>
    /\ response = NoResponse
    /\ call = NoCall
    /\ BookIdle
    /\ NavIdle
    /\ PageIdle

\* ----------------------------------------------------------------- actions

\* The FEN indices whose evaluation is requested when analyzeGame starts.
Requested(n) == 0..n

\* analyzeGame up to its first await: the PGN is parsed (a throw ends the
\* call), the FENs are computed and one evaluatePosition call per FEN is
\* started.
Start ==
    /\ pc = "start"
    /\ IF Parsed[pgn].ok
       THEN /\ history' = Parsed[pgn].history
            /\ fens' = Parsed[pgn].fens
            /\ req' = [k \in Requested(Len(pgn)) |-> "pending"]
            /\ served' = [k \in Requested(Len(pgn)) |-> Empty]
            /\ slots' = [k \in 0..Len(pgn) |-> Empty]
            /\ pc' = "gather"
            /\ error' = error
       ELSE /\ pc' = "failed"
            /\ error' = <<"pgn">>
            /\ UNCHANGED <<history, fens, req, served, slots>>
    /\ UNCHANGED <<pgn, bookSrc, done, progress, evalResults, bookAsked, book,
                   i, inBook, reviews, totalCpLoss, trail, response, call, bookVars, navVars, pageVars>>

\* Mutant: results are appended in the order they arrive.
GatherOnArrival(arr, k, r) ==
    LET filled == Cardinality({j \in DOMAIN arr : arr[j] # Empty})
    IN  [arr EXCEPT ![filled] = r]

\* Promise.all stores the value of the promise at index k at index k.
Gather(arr, k, r) == [arr EXCEPT ![k] = r]

\* Mutant: the callback reports the index of the request instead of the count.
ProgressCallByIndex(count, k, total) == <<k + 1, total>>

\* The arguments of the onProgress call made when request k is the count-th
\* to complete.
ProgressCall(count, k, total) == <<count, total>>

\* The request for FEN k is answered: evaluatePosition resolves, the .then
\* callback counts it, reports progress and hands the result to Promise.all.
Respond(k, r) ==
    /\ k \in DOMAIN req
    /\ req[k] = "pending"
    /\ req' = [req EXCEPT ![k] = "ok"]
    /\ served' = [served EXCEPT ![k] = EvalResult(k, r)]
    /\ done' = done + 1
    /\ progress' = Append(progress, ProgressCall(done + 1, k, Cardinality(DOMAIN fens)))
    /\ slots' = Gather(slots, k, EvalResult(k, r))
    /\ UNCHANGED <<pgn, bookSrc, pc, error, history, fens, evalResults, bookAsked,
                   book, i, inBook, reviews, totalCpLoss, trail, response, call, bookVars, navVars, pageVars>>

\* The request for FEN k fails (fetch rejects, the status is not OK, or the
\* body is no JSON): its promise rejects, and Promise.all rejects with the
\* first such error.
Fail(k) ==
    /\ k \in DOMAIN req
    /\ req[k] = "pending"
    /\ req' = [req EXCEPT ![k] = "failed"]
    /\ error' = IF error = NoError THEN <<"eval", k>> ELSE error
    /\ UNCHANGED <<pgn, bookSrc, pc, history, fens, served, slots, done, progress,
                   evalResults, bookAsked, book, i, inBook, reviews,
                   totalCpLoss, trail, response, call, bookVars, navVars, pageVars>>

\* The await of Promise.all throws: analyzeGame rejects.
Throw ==
    /\ pc = "gather"
    /\ error # NoError
    /\ pc' = "failed"
    /\ UNCHANGED <<pgn, bookSrc, error, history, fens, req, served, slots, done,
                   progress, evalResults, bookAsked, book, i, inBook, reviews,
                   totalCpLoss, trail, response, call, bookVars, navVars, pageVars>>

\* Mutant: the gather waits for every promise to settle and goes on even when
\* some were rejected.
ResumeAllSettled ==
    /\ pc = "gather"
    /\ \A k \in DOMAIN req : req[k] # "pending"
    /\ evalResults' = slots
    /\ bookAsked' = TRUE
    /\ pc' = "book"
    /\ UNCHANGED <<pgn, bookSrc, error, history, fens, req, served, slots, done,
                   progress, book, i, inBook, reviews, totalCpLoss, trail,
                   response, call, bookVars, navVars, pageVars>>

\* Mutant: the gather resumes as soon as the first two results are there.
ResumeOnFirstResults ==
    /\ pc = "gather"
    /\ error = NoError
    /\ \A k \in DOMAIN req : k <= 1 => req[k] = "ok"
    /\ evalResults' = slots
    /\ bookAsked' = TRUE
    /\ pc' = "book"
    /\ UNCHANGED <<pgn, bookSrc, error, history, fens, req, served, slots, done,
                   progress, book, i, inBook, reviews, totalCpLoss, trail,
                   response, call, bookVars, navVars, pageVars>>

\* Every promise fulfilled: the await of Promise.all resumes with the result
\* array and analyzeGame asks for the opening book.
Resume ==
    /\ pc = "gather"
    /\ error = NoError
    /\ \A k \in DOMAIN req : req[k] = "ok"
    /\ evalResults' = slots
    /\ bookAsked' = TRUE
    /\ pc' = "book"
    /\ UNCHANGED <<pgn, bookSrc, error, history, fens, req, served, slots, done,
                   progress, book, i, inBook, reviews, totalCpLoss, trail,
                   response, call, bookVars, navVars, pageVars>>

\* getOpeningBook resolves with the set loadBook built.
BookLoaded ==
    /\ pc = "book"
    /\ book' = [loaded |-> TRUE, positions |-> Books[bookSrc]]
    /\ pc' = "classify"
    /\ UNCHANGED <<pgn, bookSrc, error, history, fens, req, served, slots, done,
                   progress, evalResults, bookAsked, i, inBook, reviews,
                   totalCpLoss, trail, response, call, bookVars, navVars, pageVars>>

\* getOpeningBook rejects (a table could not be fetched or read).
BookFailed ==
    /\ pc = "book"
    /\ pc' = "failed"
    /\ error' = <<"book">>
    /\ UNCHANGED <<pgn, bookSrc, history, fens, req, served, slots, done, progress,
                   evalResults, bookAsked, book, i, inBook, reviews,
                   totalCpLoss, trail, response, call, bookVars, navVars, pageVars>>

\* Mutant: the best move is read from the result of the position after the
\* move.
BestMoveUciAfterMove(classification, result) ==
    IF NeedsBestMove(classification) THEN evalResults[i + 1].bestMove ELSE Null

\* The best move reported with a review: the evaluator's best move for the
\* position before the move (null when it sent none), for the classes that
\* get one.
BestMoveUci(classification, result) ==
    IF NeedsBestMove(classification) THEN result.bestMove ELSE Null

\* Mutant: the previous ply's loss is read from its review.
PrevLossReported(ply) == IF ply = 0 THEN 0 ELSE reviews[ply].cpLoss

\* The loss of the previous ply, recomputed from the evaluations.
PrevLoss(ply) ==
    IF ply = 0 THEN 0
    ELSE CpLoss(history[ply].color = "w", evaluations[ply - 1], evaluations[ply])

\* Mutant: the book is consulted even after the game has left it.
BookMoveResuming(stillInBook, fenAfter, bookSet) == isBookPosition(fenAfter, bookSet)

\* Whether the ply is classified Book.
BookMove(stillInBook, fenAfter, bookSet) ==
    stillInBook /\ isBookPosition(fenAfter, bookSet)

\* Mutant: the Book branch forgets to reset cpLoss.
ReportedLossKept(isBook, cpLoss) == cpLoss

\* The cpLoss a review reports.
ReportedLoss(isBook, cpLoss) == IF isBook THEN 0 ELSE cpLoss

\* One iteration of the classification loop, for ply i.
ClassifyStep ==
    /\ pc = "classify"
    /\ i < Len(history)
    /\ LET move == history[i + 1]
           isWhite == move.color = "w"
           evalBefore == evaluations[i]
           evalAfter == evaluations[i + 1]
           fenBefore == fens[i]
           fenAfter == fens[i + 1]
           rawLoss == CpLoss(isWhite, evalBefore, evalAfter)
           b1 == materialBalance(ChessOf(fenBefore), isWhite)
           b2 == materialBalance(ChessOf(fenAfter), isWhite)
           maxLoss == maxMaterialLossAfterMove(ChessOf(fenAfter), isWhite)
           isSacrifice == IsSacrifice(b1, b2, maxLoss)
           isPunishment == IsPunishment(i, PrevLoss(i), rawLoss)
           isBook == BookMove(inBook, fenAfter, book.positions)
           classification ==
               IF isBook THEN "Book"
               ELSE classifyMove(rawLoss, isSacrifice, isPunishment)
           cpLoss == ReportedLoss(isBook, rawLoss)
       IN  /\ inBook' = isBook
           /\ reviews' = Append(reviews,
                  [san |-> move.san,
                   uci |-> <<move.from, move.to>>,
                   fen |-> fenAfter,
                   fenBefore |-> fenBefore,
                   cpLoss |-> cpLoss,
                   evaluation |-> evalAfter,
                   classification |-> classification,
                   bestMoveUci |-> BestMoveUci(classification, evalResults[i]),
                   isWhite |-> isWhite,
                   moveNumber |-> (i \div 2) + 1])
           /\ trail' = Append(trail,
                  [rawLoss |-> rawLoss, prevLoss |-> PrevLoss(i),
                   b1 |-> b1, b2 |-> b2, maxLoss |-> maxLoss,
                   isSacrifice |-> isSacrifice, isPunishment |-> isPunishment,
                   inBookBefore |-> inBook])
           /\ totalCpLoss' = totalCpLoss + cpLoss
    /\ i' = i + 1
    /\ UNCHANGED <<pgn, bookSrc, pc, error, history, fens, req, served, slots, done,
                   progress, evalResults, bookAsked, book, response, call, bookVars, navVars, pageVars>>

\* The loop is over: the accuracy is computed and the response returned.
Finish ==
    /\ pc = "classify"
    /\ i = Len(history)
    /\ response' = [returned |-> TRUE,
                    accuracy |-> Accuracy(totalCpLoss, Len(reviews)),
                    moves |-> reviews]
    /\ pc' = "done"
    /\ UNCHANGED <<pgn, bookSrc, error, history, fens, req, served, slots, done,
                   progress, evalResults, bookAsked, book, i, inBook, reviews,
                   totalCpLoss, trail, call, bookVars, navVars, pageVars>>

Next ==
    \/ Start
    \/ \E k \in 0..(MaxPlies + 1), r \in Responses : Respond(k, r)
    \/ \E k \in 0..(MaxPlies + 1) : Fail(k)
    \/ Throw
    \/ Resume
    \/ BookLoaded
    \/ BookFailed
    \/ ClassifyStep
    \/ Finish

Spec == Init /\ [][Next]_vars

\* ------------------------------------------- classifyMove exercised alone

ClassifyInit ==
    /\ call \in [cpLoss : 0..MaxCpLoss, isSacrifice : BOOLEAN,
                 isPunishment : BOOLEAN, result : {None}]
    /\ pgn = <<>>
    /\ bookSrc = {}
    /\ pc = "unit"
    /\ error = NoError
    /\ history = <<>>
    /\ fens = <<>>
    /\ req = <<>>
    /\ served = <<>>
    /\ slots = <<>>
    /\ done = 0
    /\ progress = <<>>
    /\ evalResults = <<>>
    /\ bookAsked = FALSE
    /\ book = NoBook
    /\ i = 0
    /\ inBook = TRUE
    /\ reviews = <<>>
    /\ totalCpLoss = 0
    /\ trail = <<>>
    /\ response = NoResponse
    /\ BookIdle
    /\ NavIdle
    /\ PageIdle

ClassifyCall ==
    /\ pc = "unit"
    /\ call.result = None
    /\ call' = [call EXCEPT
                   !.result = classifyMove(call.cpLoss, call.isSacrifice,
                                           call.isPunishment)]
    /\ UNCHANGED <<pgn, bookSrc, pc, error, history, fens, req, served, slots, done,
                   progress, evalResults, bookAsked, book, i, inBook, reviews,
                   totalCpLoss, trail, response, bookVars, navVars, pageVars>>

SpecClassify == ClassifyInit /\ [][ClassifyCall]_vars

\* ------------------------------------------------ the opening-book loader

\* Every variable of analyzeGame at rest, while the loader is exercised.
AnalysisIdle ==
    /\ pgn = <<>>
    /\ bookSrc = {}
    /\ pc = "unit"
    /\ error = NoError
    /\ history = <<>>
    /\ fens = <<>>
    /\ req = <<>>
    /\ served = <<>>
    /\ slots = <<>>
    /\ done = 0
    /\ progress = <<>>
    /\ evalResults = <<>>
    /\ bookAsked = FALSE
    /\ book = NoBook
    /\ i = 0
    /\ inBook = TRUE
    /\ reviews = <<>>
    /\ totalCpLoss = 0
    /\ trail = <<>>
    /\ response = NoResponse
    /\ call = NoCall

BookInit == AnalysisIdle /\ BookIdle /\ NavIdle /\ PageIdle

\* The positions one table contributes, once per table.
FilePositions == [f \in Range(files) |-> loadBook(FileLines[f])]

\* Reference lines as the tables spell them: with move numbers, with a
\* result token before the end of the line, with a token that is no legal
\* move, and without any of these.
ReferenceLines ==
    {<<"1.", "e4", "e5", "1-0", "Nf3">>,
     <<"e3", "e6", "1/2-1/2", "Nf3">>,
     <<"e4", "e4", "e5">>,
     <<"Nf3", "*", "e6">>,
     <<"e3", "e6", "Nf3">>}

\* The tables a fetch may return: no line with a move column, or two of the
\* reference lines.
Tables ==
    {{},
     {<<"1.", "e4", "e5", "1-0", "Nf3">>, <<"Nf3", "*", "e6">>},
     {<<"e3", "e6", "1/2-1/2", "Nf3">>, <<"e4", "e4", "e5">>},
     {<<"e4", "e4", "e5">>, <<"e3", "e6", "Nf3">>}}

\* The positions the lines of a table add, once per table.
TablePositions ==
    [lines \in Tables \cup {FileLines[f] : f \in Range(files)} |-> loadBook(lines)]

\* Mutant: a call made after the load has failed starts a new load.
StartsLoadAfterFailure ==
    ~bookPositions.loaded /\ loadingPromise \in {"null", "rejected"}

\* Mutant: a call made while the set is not cached starts a load of its own.
StartsLoadUncached == ~bookPositions.loaded

\* getOpeningBook starts loadBook when nothing is cached and no load was
\* started before.
StartsLoad == ~bookPositions.loaded /\ loadingPromise = "null"

\* The state of the promise a getOpeningBook call returns, at its return.
Returned ==
    IF bookPositions.loaded THEN "fulfilled"
    ELSE IF StartsLoad THEN "pending"
    ELSE loadingPromise

\* The way a getOpeningBook call takes through the function.
Path ==
    IF bookPositions.loaded THEN "cached"
    ELSE IF StartsLoad THEN "first"
    ELSE "inflight"

\* Call c of getOpeningBook (made by analyzeGame, which then awaits the
\* result): the cached set, a new load, or the load already started.
GetOpeningBook(c) ==
    /\ caller[c].state = "idle"
    /\ caller' = [caller EXCEPT ![c] = [state |-> "waiting", path |-> Path,
                                       promise |-> Returned, got |-> {}]]
    /\ IF StartsLoad
       THEN /\ loadingPromise' = "pending"
            /\ loads' = loads + 1
            /\ fetched' = [f \in Range(files) |-> fetched[f] + 1]
            /\ part' = [f \in Range(files) |-> "pending"]
            /\ positions' = {}
       ELSE UNCHANGED <<loadingPromise, loads, fetched, part, positions>>
    /\ UNCHANGED <<bookPositions, read, analysisVars, navVars, pageVars>>

\* Mutant: the set is returned as soon as one task has fulfilled.
SettledOnFirst(states) == \E f \in DOMAIN states : states[f] = "done"

\* Promise.all over the tables fulfils when every task has fulfilled.
Settled(states) == \A f \in DOMAIN states : states[f] = "done"

\* The task of table f runs to its end: the response is read and every line
\* is replayed into the local set.  When it was the last task, loadBook
\* returns the set, which is cached and settles the load promise.
TableRead(f, lines) ==
    /\ part[f] = "pending"
    /\ part' = [part EXCEPT ![f] = "done"]
    /\ read' = [read EXCEPT ![f] = lines]
    /\ positions' = positions \cup TablePositions[lines]
    /\ IF Settled(part') /\ loadingPromise = "pending"
       THEN /\ bookPositions' = [loaded |-> TRUE, positions |-> positions']
            /\ loadingPromise' = "fulfilled"
       ELSE UNCHANGED <<bookPositions, loadingPromise>>
    /\ UNCHANGED <<loads, fetched, caller, analysisVars, navVars, pageVars>>

\* The task of table f reads the table, or a response that is not the table
\* (an error page), which holds no line with three columns and adds nothing.
TableLoaded(f, isTable) == TableRead(f, IF isTable THEN FileLines[f] ELSE {})

\* The fetch of table f, or the read of its body, rejects: the task rejects,
\* Promise.all rejects, loadBook rejects and so does the load promise.
TableFailed(f) ==
    /\ part[f] = "pending"
    /\ part' = [part EXCEPT ![f] = "failed"]
    /\ loadingPromise' = IF loadingPromise = "pending" THEN "rejected"
                         ELSE loadingPromise
    /\ UNCHANGED <<bookPositions, loads, fetched, positions, read, caller,
                   analysisVars, navVars, pageVars>>

\* The await of call c resumes: with the cached set, or with the rejection of
\* the load promise, which analyzeGame does not catch.
Deliver(c) ==
    /\ caller[c].state = "waiting"
    /\ \/ /\ bookPositions.loaded
          /\ caller' = [caller EXCEPT ![c].state = "resumed",
                                      ![c].got = bookPositions.positions]
       \/ /\ ~bookPositions.loaded
          /\ loadingPromise = "rejected"
          /\ caller' = [caller EXCEPT ![c].state = "rejected"]
    /\ UNCHANGED <<bookPositions, loadingPromise, loads, fetched, part, positions,
                   read, analysisVars, navVars, pageVars>>

BookNext ==
    \/ \E c \in Callers : GetOpeningBook(c)
    \/ \E f \in Range(files), isTable \in BOOLEAN : TableLoaded(f, isTable)
    \/ \E f \in Range(files) : TableFailed(f)
    \/ \E c \in Callers : Deliver(c)

SpecBook == BookInit /\ [][BookNext]_vars

\* The load of the book by one caller, over tables whose lines hold result
\* tokens and tokens that are no legal moves.
TablesNext ==
    \/ \E c \in {1} : GetOpeningBook(c)
    \/ \E f \in Range(files), lines \in Tables : TableRead(f, lines)
    \/ \E f \in Range(files) : TableFailed(f)
    \/ \E c \in {1} : Deliver(c)

SpecTables == BookInit /\ [][TablesNext]_vars

\* ----------------------------------------------------------- the navigator

START_FEN == "rnbqkbnr/pppppppp/8/8/8/8/PPPPPPPP/RNBQKBNR w KQkq - 0 1"

\* The reviewed moves of the analysis the result page loads.
ReviewedGame ==
    <<[san |-> "e4", fen |-> "fen1", evaluation |-> 30],
      [san |-> "e5", fen |-> "fen2", evaluation |-> 10],
      [san |-> "Nf3", fen |-> "fen3", evaluation |-> 45],
      [san |-> "Nc6", fen |-> "fen4", evaluation |-> 20]>>

\* The moves a user drops on the board, or an engine line offers: the SAN and
\* the FEN after the move.
Drops == {[san |-> "a", fen |-> "fa"], [san |-> "b", fen |-> "fb"]}

\* eval: null.
NoEval == [known |-> FALSE]

Node(san, fen) == [san |-> san, fen |-> fen, eval |-> NoEval]

\* The sequences handed to loadVariation, the empty one included.
Sequences ==
    {<<>>} \cup {<<Node(d.san, d.fen)>> : d \in Drops}
           \cup {<<Node(d.san, d.fen), Node(e.san, e.fen)>> : d, e \in Drops}

Undefined == "undefined"

Void == "void"

rawMoves == data.moves

mainFens == <<START_FEN>> \o [k \in 1..Len(data.moves) |-> data.moves[k].fen]

\* The evaluations of the main line: [0, ...data.moves.map(m => m.evaluation)].
mainEvaluations ==
    <<0>> \o [k \in 1..Len(data.moves) |-> data.moves[k].evaluation]

\* array[index] for a JavaScript index: undefined outside the array.
At(array, index) ==
    IF index >= 0 /\ index < Len(array)
    THEN [defined |-> TRUE, value |-> array[index + 1]]
    ELSE [defined |-> FALSE]

\* array[index]?.san for a JavaScript index.
SanAt(array, index) ==
    IF index >= 0 /\ index < Len(array) THEN array[index + 1].san ELSE Undefined

\* array.slice(0, end) for end >= 0.
Slice(array, end) == SubSeq(array, 1, Min(end, Len(array)))

Snapshot ==
    [data |-> data, currentMoveIndex |-> currentMoveIndex, isVariation |-> isVariation,
     variationMoves |-> variationMoves, variationIndex |-> variationIndex,
     variationBaseIndex |-> variationBaseIndex, orientation |-> orientation,
     showTimestamps |-> showTimestamps]

\* variationMoves[variationIndex]?.fen ?? mainFens[currentMoveIndex] in
\* Exploration, mainFens[currentMoveIndex] on the main line.
currentFen ==
    IF isVariation /\ At(variationMoves, variationIndex).defined
    THEN variationMoves[variationIndex + 1].fen
    ELSE IF At(mainFens, currentMoveIndex).defined
         THEN mainFens[currentMoveIndex + 1] ELSE Undefined

\* Mutant: the evaluation shown is the main line's also in Exploration.
currentEvalOfMainLine ==
    IF At(mainEvaluations, currentMoveIndex).defined
    THEN mainEvaluations[currentMoveIndex + 1] ELSE 0

\* variationMoves[variationIndex]?.eval ?? 0 in Exploration,
\* evaluations[currentMoveIndex] ?? 0 on the main line.
currentEval ==
    IF isVariation
    THEN IF At(variationMoves, variationIndex).defined
            /\ variationMoves[variationIndex + 1].eval.known
         THEN variationMoves[variationIndex + 1].eval.value
         ELSE 0
    ELSE IF At(mainEvaluations, currentMoveIndex).defined
         THEN mainEvaluations[currentMoveIndex + 1] ELSE 0

\* rawMoves[currentMoveIndex - 1] ?? null on the main line past the start
\* position, null otherwise.
currentMoveData ==
    IF ~isVariation /\ currentMoveIndex > 0
       /\ At(rawMoves, currentMoveIndex - 1).defined
    THEN rawMoves[currentMoveIndex] ELSE Null

Called(op, arg, value) ==
    last' = [op |-> op, arg |-> arg, value |-> value, before |-> Snapshot]

\* The effect of setData(JSON.parse(raw)) on the hook: the main line is known.
SetData(n) ==
    /\ ~data.loaded
    /\ data' = [loaded |-> TRUE, moves |-> SubSeq(ReviewedGame, 1, n)]
    /\ Called("setData", [moves |-> n], Void)
    /\ UNCHANGED <<currentMoveIndex, isVariation, variationMoves, variationIndex,
                   variationBaseIndex, orientation, showTimestamps,
                   analysisVars, bookVars>>

\* Mutant: the index is not clamped from below.
ClampedFromAbove(index, length) == Min(index, length - 1)

\* Math.max(0, Math.min(index, length - 1)).
Clamped(index, length) == Max(0, Min(index, length - 1))

\* Mutant: the main-line pointer is moved without leaving the exploration
\* line.
goToMoveInLine(index) ==
    /\ currentMoveIndex' = Clamped(index, Len(mainFens))
    /\ Called("goToMove", [index |-> index], Void)
    /\ UNCHANGED <<data, isVariation, variationMoves, variationIndex,
                   variationBaseIndex, orientation, showTimestamps,
                   analysisVars, bookVars>>

goToMove(index) ==
    /\ isVariation' = FALSE
    /\ currentMoveIndex' = Clamped(index, Len(mainFens))
    /\ Called("goToMove", [index |-> index], Void)
    /\ UNCHANGED <<data, variationMoves, variationIndex, variationBaseIndex,
                   orientation, showTimestamps,
                   analysisVars, bookVars>>

\* Mutant: the step forward is not stopped at the end of the line.
NextIndexUnbounded(index, length) == index + 1

\* Math.min(index + 1, length - 1).
NextIndex(index, length) == Min(index + 1, length - 1)

nextMove ==
    /\ IF ~isVariation
       THEN LET next == NextIndex(currentMoveIndex, Len(mainFens))
            IN  IF next = currentMoveIndex
                THEN /\ Called("nextMove", [none |-> TRUE], Undefined)
                     /\ UNCHANGED <<currentMoveIndex, variationIndex>>
                ELSE /\ currentMoveIndex' = next
                     /\ Called("nextMove", [none |-> TRUE], SanAt(rawMoves, next - 1))
                     /\ UNCHANGED variationIndex
       ELSE LET next == NextIndex(variationIndex, Len(variationMoves))
            IN  IF next = variationIndex
                THEN /\ Called("nextMove", [none |-> TRUE], Undefined)
                     /\ UNCHANGED <<currentMoveIndex, variationIndex>>
                ELSE /\ variationIndex' = next
                     /\ Called("nextMove", [none |-> TRUE], SanAt(variationMoves, next))
                     /\ UNCHANGED currentMoveIndex
    /\ UNCHANGED <<data, isVariation, variationMoves, variationBaseIndex,
                   orientation, showTimestamps,
                   analysisVars, bookVars>>

\* Mutant: leaving the exploration line also steps back on the main line.
prevMoveSteppingBack ==
    /\ IF isVariation
       THEN IF variationIndex > 0
            THEN /\ variationIndex' = variationIndex - 1
                 /\ Called("prevMove", [none |-> TRUE], "undo")
                 /\ UNCHANGED <<isVariation, currentMoveIndex>>
            ELSE /\ isVariation' = FALSE
                 /\ currentMoveIndex' = Max(0, currentMoveIndex - 1)
                 /\ Called("prevMove", [none |-> TRUE], "exit-variation")
                 /\ UNCHANGED variationIndex
       ELSE IF currentMoveIndex > 0
            THEN /\ currentMoveIndex' = currentMoveIndex - 1
                 /\ Called("prevMove", [none |-> TRUE], "undo")
                 /\ UNCHANGED <<isVariation, variationIndex>>
            ELSE /\ Called("prevMove", [none |-> TRUE], "noop")
                 /\ UNCHANGED <<isVariation, currentMoveIndex, variationIndex>>
    /\ UNCHANGED <<data, variationMoves, variationBaseIndex, orientation, showTimestamps,
                   analysisVars, bookVars>>

prevMove ==
    /\ IF isVariation
       THEN IF variationIndex > 0
            THEN /\ variationIndex' = variationIndex - 1
                 /\ Called("prevMove", [none |-> TRUE], "undo")
                 /\ UNCHANGED <<isVariation, currentMoveIndex>>
            ELSE /\ isVariation' = FALSE
                 /\ Called("prevMove", [none |-> TRUE], "exit-variation")
                 /\ UNCHANGED <<currentMoveIndex, variationIndex>>
       ELSE IF currentMoveIndex > 0
            THEN /\ currentMoveIndex' = currentMoveIndex - 1
                 /\ Called("prevMove", [none |-> TRUE], "undo")
                 /\ UNCHANGED <<isVariation, variationIndex>>
            ELSE /\ Called("prevMove", [none |-> TRUE], "noop")
                 /\ UNCHANGED <<isVariation, currentMoveIndex, variationIndex>>
    /\ UNCHANGED <<data, variationMoves, variationBaseIndex, orientation, showTimestamps,
                   analysisVars, bookVars>>

\* Mutant: returning to the main line erases the exploration line.
exitVariationErasing ==
    /\ isVariation' = FALSE
    /\ variationMoves' = <<>>
    /\ variationIndex' = -1
    /\ Called("exitVariation", [none |-> TRUE], Void)
    /\ UNCHANGED <<data, currentMoveIndex, variationBaseIndex, orientation,
                   showTimestamps, analysisVars, bookVars>>

exitVariation ==
    /\ isVariation' = FALSE
    /\ Called("exitVariation", [none |-> TRUE], Void)
    /\ UNCHANGED <<data, currentMoveIndex, variationMoves, variationIndex,
                   variationBaseIndex, orientation, showTimestamps,
                   analysisVars, bookVars>>

\* setOrientation(o => o === 'white' ? 'black' : 'white').
flipBoard ==
    /\ orientation' = IF orientation = "white" THEN "black" ELSE "white"
    /\ Called("flipBoard", [none |-> TRUE], Void)
    /\ UNCHANGED <<data, currentMoveIndex, isVariation, variationMoves, variationIndex,
                   variationBaseIndex, showTimestamps, analysisVars, bookVars>>

\* Mutant: the clocks are shown by leaving the exploration line.
setShowTimestampsLeavingLine(value) ==
    /\ showTimestamps' = value
    /\ isVariation' = FALSE
    /\ Called("setShowTimestamps", [value |-> value], Void)
    /\ UNCHANGED <<data, currentMoveIndex, variationMoves, variationIndex,
                   variationBaseIndex, orientation, analysisVars, bookVars>>

\* setShowTimestamps, the setter of the show-clocks flag: the page calls it
\* with v => !v, a caller of the hook with any value.
setShowTimestamps(value) ==
    /\ showTimestamps' = value
    /\ Called("setShowTimestamps", [value |-> value], Void)
    /\ UNCHANGED <<data, currentMoveIndex, isVariation, variationMoves, variationIndex,
                   variationBaseIndex, orientation, analysisVars, bookVars>>

\* Mutant: the new node is appended to the nodes of the line explored before.
startVariationAppending(san, fen) ==
    /\ Len(variationMoves) < MaxNodes
    /\ isVariation' = TRUE
    /\ variationBaseIndex' = currentMoveIndex
    /\ variationMoves' = Append(variationMoves, Node(san, fen))
    /\ variationIndex' = 0
    /\ Called("startVariation", [san |-> san, fen |-> fen], Void)
    /\ UNCHANGED <<data, currentMoveIndex, orientation, showTimestamps,
                   analysisVars, bookVars>>

\* Mutant: the move dropped on the board is also appended to the main line.
startVariationOnMainLine(san, fen) ==
    /\ isVariation' = TRUE
    /\ variationBaseIndex' = currentMoveIndex
    /\ variationMoves' = <<Node(san, fen)>>
    /\ variationIndex' = 0
    /\ data' = [data EXCEPT !.moves =
                    Append(@, [san |-> san, fen |-> fen, evaluation |-> 0])]
    /\ Called("startVariation", [san |-> san, fen |-> fen], Void)
    /\ UNCHANGED <<currentMoveIndex, orientation, showTimestamps,
                   analysisVars, bookVars>>

startVariation(san, fen) ==
    /\ isVariation' = TRUE
    /\ variationBaseIndex' = currentMoveIndex
    /\ variationMoves' = <<Node(san, fen)>>
    /\ variationIndex' = 0
    /\ Called("startVariation", [san |-> san, fen |-> fen], Void)
    /\ UNCHANGED <<data, currentMoveIndex, orientation, showTimestamps,
                   analysisVars, bookVars>>

\* Mutant: the nodes after the cursor are kept.
ExtendedUntrimmed(prev, index, sequence) == prev \o sequence

\* [...prev.slice(0, index + 1), ...sequence].
Extended(prev, index, sequence) == Slice(prev, index + 1) \o sequence

extendVariation(san, fen) ==
    /\ Min(variationIndex + 1, Len(variationMoves)) + 1 <= MaxNodes
    /\ variationMoves' = Extended(variationMoves, variationIndex, <<Node(san, fen)>>)
    /\ variationIndex' = variationIndex + 1
    /\ Called("extendVariation", [san |-> san, fen |-> fen], Void)
    /\ UNCHANGED <<data, currentMoveIndex, isVariation, variationBaseIndex,
                   orientation, showTimestamps,
                   analysisVars, bookVars>>

\* The evaluations a response brings for an exploration node.
EvalValues == {25}

\* Mutant: the cursor follows the node whose evaluation arrived.
updateVariationEvalMovingCursor(idx, evalVal) ==
    /\ variationMoves' =
           IF idx >= 0 /\ idx < Len(variationMoves)
           THEN [variationMoves EXCEPT
                    ![idx + 1].eval = [known |-> TRUE, value |-> evalVal]]
           ELSE variationMoves
    /\ variationIndex' = IF idx >= 0 /\ idx < Len(variationMoves) THEN idx
                         ELSE variationIndex
    /\ Called("updateVariationEval", [idx |-> idx, evalVal |-> evalVal], Void)
    /\ UNCHANGED <<data, currentMoveIndex, isVariation, variationBaseIndex,
                   orientation, showTimestamps,
                   analysisVars, bookVars>>

updateVariationEval(idx, evalVal) ==
    /\ variationMoves' =
           IF idx >= 0 /\ idx < Len(variationMoves)
           THEN [variationMoves EXCEPT
                    ![idx + 1].eval = [known |-> TRUE, value |-> evalVal]]
           ELSE variationMoves
    /\ Called("updateVariationEval", [idx |-> idx, evalVal |-> evalVal], Void)
    /\ UNCHANGED <<data, currentMoveIndex, isVariation, variationIndex,
                   variationBaseIndex, orientation, showTimestamps,
                   analysisVars, bookVars>>

\* Mutant: a sequence loaded from the main line leaves the cursor on its first
\* node.
loadVariationCursorAtStart(sequence) ==
    /\ IF ~isVariation
       THEN /\ isVariation' = TRUE
            /\ variationBaseIndex' = currentMoveIndex
            /\ variationMoves' = sequence
            /\ variationIndex' = Min(0, Len(sequence) - 1)
       ELSE /\ Min(variationIndex + 1, Len(variationMoves)) + Len(sequence) <= MaxNodes
            /\ variationMoves' = Extended(variationMoves, variationIndex, sequence)
            /\ variationIndex' = variationIndex + Len(sequence)
            /\ UNCHANGED <<isVariation, variationBaseIndex>>
    /\ Called("loadVariation", [sequence |-> sequence], Void)
    /\ UNCHANGED <<data, currentMoveIndex, orientation, showTimestamps,
                   analysisVars, bookVars>>

loadVariation(sequence) ==
    /\ IF ~isVariation
       THEN /\ isVariation' = TRUE
            /\ variationBaseIndex' = currentMoveIndex
            /\ variationMoves' = sequence
            /\ variationIndex' = Len(sequence) - 1
       ELSE /\ Min(variationIndex + 1, Len(variationMoves)) + Len(sequence) <= MaxNodes
            /\ variationMoves' = Extended(variationMoves, variationIndex, sequence)
            /\ variationIndex' = variationIndex + Len(sequence)
            /\ UNCHANGED <<isVariation, variationBaseIndex>>
    /\ Called("loadVariation", [sequence |-> sequence], Void)
    /\ UNCHANGED <<data, currentMoveIndex, orientation, showTimestamps,
                   analysisVars, bookVars>>

goToVariationMove(idx) ==
    /\ variationIndex' = Clamped(idx, Len(variationMoves))
    /\ Called("goToVariationMove", [idx |-> idx], Void)
    /\ UNCHANGED <<data, currentMoveIndex, isVariation, variationMoves,
                   variationBaseIndex, orientation, showTimestamps,
                   analysisVars, bookVars>>

NavInit == AnalysisIdle /\ BookIdle /\ NavIdle /\ PageIdle

\* The navigation and exploration operations, over the analysis of a game
\* without moves and of one of MaxMoves moves.
NavNext ==
    \/ \E n \in {0, MaxMoves} : SetData(n) /\ UNCHANGED pageVars
    \/ \E index \in -1..(MaxMoves + 1) : goToMove(index) /\ UNCHANGED pageVars
    \/ nextMove /\ UNCHANGED pageVars
    \/ prevMove /\ UNCHANGED pageVars
    \/ exitVariation /\ UNCHANGED pageVars
    \/ \E d \in Drops : startVariation(d.san, d.fen) /\ UNCHANGED pageVars
    \/ \E d \in Drops : extendVariation(d.san, d.fen) /\ UNCHANGED pageVars
    \/ \E idx \in -1..MaxNodes, evalVal \in EvalValues :
          updateVariationEval(idx, evalVal) /\ UNCHANGED pageVars
    \/ \E sequence \in Sequences : loadVariation(sequence) /\ UNCHANGED pageVars
    \/ \E idx \in -1..MaxNodes : goToVariationMove(idx) /\ UNCHANGED pageVars

SpecNav == NavInit /\ [][NavNext]_vars

\* The move of the board the flip is exercised under.
BoardDrops == {d \in Drops : d.san = "a"}

\* The navigator with the board's flip: every operation of the hook, over the
\* lines one dropped move builds.
BoardNext ==
    \/ \E n \in {0, MaxMoves} : SetData(n) /\ UNCHANGED pageVars
    \/ \E index \in -1..(MaxMoves + 1) : goToMove(index) /\ UNCHANGED pageVars
    \/ nextMove /\ UNCHANGED pageVars
    \/ prevMove /\ UNCHANGED pageVars
    \/ exitVariation /\ UNCHANGED pageVars
    \/ flipBoard /\ UNCHANGED pageVars
    \/ \E value \in BOOLEAN : setShowTimestamps(value) /\ UNCHANGED pageVars
    \/ \E d \in BoardDrops : startVariation(d.san, d.fen) /\ UNCHANGED pageVars
    \/ \E d \in BoardDrops : extendVariation(d.san, d.fen) /\ UNCHANGED pageVars
    \/ \E idx \in -1..MaxNodes, evalVal \in EvalValues :
          updateVariationEval(idx, evalVal) /\ UNCHANGED pageVars
    \/ \E sequence \in {seq \in Sequences : \A k \in 1..Len(seq) : seq[k].san = "a"} :
          loadVariation(sequence) /\ UNCHANGED pageVars
    \/ \E idx \in -1..MaxNodes : goToVariationMove(idx) /\ UNCHANGED pageVars

SpecBoard == NavInit /\ [][BoardNext]_vars

\* --------------------------------------------------------- the result page

\* The depths the engine panel offers.
Depths == {10, 14}

\* What a piece dropped on the board may be: dropped off the board, a move the
\* rules adapter rejects, or a legal move with its SAN and resulting FEN.
Attempts ==
    {[target |-> FALSE, legal |-> FALSE, san |-> "", fen |-> ""],
     [target |-> TRUE, legal |-> FALSE, san |-> "", fen |-> ""]}
    \cup {[target |-> TRUE, legal |-> TRUE, san |-> d.san, fen |-> d.fen] : d \in Drops}

\* A move of an engine line that does not replay on the requested position.
BadUci == [san |-> "", fen |-> ""]

\* The bodies the evaluator may answer a live-engine request with: without
\* pvLines, or with one line of moves.
Payloads ==
    {[pvLines |-> FALSE, evaluation |-> 0, moves |-> <<>>]}
    \cup {[pvLines |-> TRUE, evaluation |-> 40, moves |-> m] :
             m \in {<<[san |-> "a", fen |-> "fa"], [san |-> "b", fen |-> "fb"]>>,
                    <<[san |-> "b", fen |-> "fb"], BadUci, [san |-> "a", fen |-> "fa"]>>}}

\* The replay of a line's moves on the requested position: it stops at the
\* first move that throws.
RECURSIVE Replayed(_)
Replayed(moves) ==
    IF moves = <<>> \/ Head(moves) = BadUci THEN <<>>
    ELSE <<Head(moves)>> \o Replayed(Tail(moves))

\* d.pvLines.map(...): one PVLine per line of the response.
ParsedLines(payload) ==
    <<[evaluation |-> payload.evaluation, sequence |-> Replayed(payload.moves)]>>

\* The engine panel as the first render and its effects leave it: the
\* live-engine effect has asked for the lines of the start position.
EngineMounted ==
    /\ engineLines = NoLines
    /\ engineDepth = 14
    /\ isCalculating = TRUE
    /\ liveRequests = {[fen |-> START_FEN, depth |-> 14, active |-> TRUE]}
    /\ effectDeps = [fen |-> START_FEN, depth |-> 14]

\* The engine panel once the lines of the start position have arrived.
EngineAnswered ==
    /\ engineLines = [of |-> [fen |-> START_FEN, depth |-> 14],
                      lines |-> <<[evaluation |-> 40,
                                   sequence |-> <<[san |-> "a", fen |-> "fa"],
                                                  [san |-> "b", fen |-> "fb"]>>]>>]
    /\ engineDepth = 14
    /\ isCalculating = FALSE
    /\ liveRequests = {}
    /\ effectDeps = [fen |-> START_FEN, depth |-> 14]

engineVars == <<engineLines, engineDepth, isCalculating, liveRequests, effectDeps>>

\* What ran last on the page: the handler or callback, its argument, its
\* return value, the evaluation requests it sent and the request it was for.
Handled(handler, arg, returned, issued, request) ==
    handled' = [handler |-> handler, arg |-> arg, returned |-> returned,
                issued |-> issued, request |-> request]

\* What a handler that only navigates leaves alone on the page.
Navigated(handler) ==
    /\ Handled(handler, [none |-> TRUE], Void, 0, NoRequest)
    /\ UNCHANGED <<engineVars, nodeRequests>>

\* setData(JSON.parse(raw)) for the analysis kept in sessionStorage.
LoadData(n) ==
    /\ SetData(n)
    /\ Navigated("loadData")

\* The keyboard handler (and the Prev and Next buttons).
KeyDown(key) ==
    /\ CASE key = "ArrowRight" -> nextMove
         [] key = "ArrowLeft" -> prevMove
         [] key = "ArrowUp" -> IF isVariation THEN exitVariation ELSE goToMove(0)
         [] key = "ArrowDown" ->
                IF ~isVariation THEN goToMove(Len(mainFens) - 1)
                ELSE UNCHANGED <<analysisVars, bookVars, navVars>>
    /\ Navigated(key)

\* navGoTo(idx): a move of the move list or the chart, First and Last.
navGoTo(idx) ==
    /\ data.loaded
    /\ goToMove(idx)
    /\ Navigated("navGoTo")

\* The move list's callbacks: a node of the exploration line is selected, or
\* the line is left.
SelectVariationMove(idx) ==
    /\ data.loaded
    /\ goToVariationMove(idx)
    /\ Navigated("selectVariationMove")

ExitVariationClick ==
    /\ data.loaded
    /\ exitVariation
    /\ Navigated("exitVariation")

\* A move of a displayed engine line is clicked: the line up to that move is
\* loaded.
EngineLineClick(line, k) ==
    /\ data.loaded
    /\ line \in 1..Len(engineLines.lines)
    /\ k \in 1..Len(engineLines.lines[line].sequence)
    /\ loadVariation([j \in 1..k |->
           Node(engineLines.lines[line].sequence[j].san,
                engineLines.lines[line].sequence[j].fen)])
    /\ Navigated("engineLineClick")

\* game.isVariation ? game.variationIndex : 0, of the render the drop was
\* handled in.
ClosedOverIndex == IF isVariation THEN variationIndex ELSE 0

\* Mutant: an illegal move is played as a move without SAN.
RejectsOffBoard(attempt) == ~attempt.target

\* if (!targetSquare) return false; and the throw, or the null, of ch.move.
Rejects(attempt) == ~attempt.target \/ ~attempt.legal

\* onPieceDrop: a drop without target or of an illegal move returns false;
\* a legal move enters or extends the exploration line and its evaluation is
\* requested.
onPieceDrop(attempt) ==
    /\ data.loaded
    /\ IF Rejects(attempt)
       THEN /\ Handled("onPieceDrop", attempt, FALSE, 0, NoRequest)
            /\ UNCHANGED <<analysisVars, bookVars, navVars, engineVars, nodeRequests>>
       ELSE /\ IF ~isVariation THEN startVariation(attempt.san, attempt.fen)
               ELSE extendVariation(attempt.san, attempt.fen)
            /\ nodeRequests' =
                   nodeRequests \cup {[fen |-> attempt.fen, idx |-> ClosedOverIndex]}
            /\ Cardinality(nodeRequests') <= MaxPending
            /\ Handled("onPieceDrop", attempt, TRUE, 1,
                       [fen |-> attempt.fen, depth |-> 10])
            /\ UNCHANGED engineVars

\* The response to a request of onPieceDrop arrives: d.evaluation ?? 0 is
\* stored at the index the callback closed over.
NodeEvalResponse(r, evalVal) ==
    /\ r \in nodeRequests
    /\ updateVariationEval(r.idx, evalVal)
    /\ nodeRequests' = nodeRequests \ {r}
    /\ Handled("nodeEvalResponse", [evaluation |-> evalVal], Void, 0,
               [fen |-> r.fen, depth |-> 10])
    /\ UNCHANGED engineVars

\* The request fails, or its body is no JSON: .catch(() => {}).
NodeEvalFailure(r) ==
    /\ r \in nodeRequests
    /\ nodeRequests' = nodeRequests \ {r}
    /\ Handled("nodeEvalFailure", [none |-> TRUE], Void, 0,
               [fen |-> r.fen, depth |-> 10])
    /\ UNCHANGED <<analysisVars, bookVars, navVars, engineVars>>

\* The board and the evaluation requests of its drops, under a panel that
\* shows the lines of the start position.
PageInit == AnalysisIdle /\ BookIdle /\ NavIdle /\ EngineAnswered
            /\ nodeRequests = {} /\ handled = NoHandler

\* The page over the analysis of a one-move game: the move list offers the
\* start position and the move.
PageNext ==
    \/ \E n \in {1} : LoadData(n)
    \/ \E key \in {"ArrowRight", "ArrowLeft", "ArrowUp", "ArrowDown"} : KeyDown(key)
    \/ \E idx \in 0..1 : navGoTo(idx)
    \/ \E idx \in 0..(MaxNodes - 1) : SelectVariationMove(idx)
    \/ ExitVariationClick
    \/ \E line \in {1}, k \in 1..MaxNodes : EngineLineClick(line, k)
    \/ \E attempt \in Attempts : onPieceDrop(attempt)
    \/ \E r \in nodeRequests, evalVal \in EvalValues : NodeEvalResponse(r, evalVal)
    \/ \E r \in nodeRequests : NodeEvalFailure(r)

SpecPage == PageInit /\ [][PageNext]_vars

\* ------------------------------------------------------- the engine panel

\* The depth select of the engine panel.
DepthChange(depth) ==
    /\ data.loaded
    /\ depth # engineDepth
    /\ engineDepth' = depth
    /\ Handled("depthChange", [depth |-> depth], Void, 0, NoRequest)
    /\ UNCHANGED <<analysisVars, bookVars, navVars, engineLines, isCalculating,
                   liveRequests, effectDeps, nodeRequests>>

\* The live-engine effect, run after a render in which the position shown or
\* the depth differs from those of its last run: the cleanup of that run
\* clears its active flag and a new request is sent.
LiveEngineEffect ==
    /\ effectDeps # [fen |-> currentFen, depth |-> engineDepth]
    /\ Cardinality(liveRequests) < MaxRequests
    /\ isCalculating' = TRUE
    /\ liveRequests' =
           {[r EXCEPT !.active = FALSE] : r \in liveRequests}
           \cup {[fen |-> currentFen, depth |-> engineDepth, active |-> TRUE]}
    /\ effectDeps' = [fen |-> currentFen, depth |-> engineDepth]
    /\ Handled("liveEngineEffect", [none |-> TRUE], Void, 0, effectDeps')
    /\ UNCHANGED <<analysisVars, bookVars, navVars, engineLines, engineDepth,
                   nodeRequests>>

\* Mutant: a response with lines is applied whatever the active flag.
AppliesUngated(r, payload) == payload.pvLines

\* if (!active || !d.pvLines) return;
Applies(r, payload) == r.active /\ payload.pvLines

\* The response to a live-engine request arrives.
LiveResponse(r, payload) ==
    /\ r \in liveRequests
    /\ liveRequests' = liveRequests \ {r}
    /\ IF Applies(r, payload)
       THEN /\ engineLines' = [of |-> [fen |-> r.fen, depth |-> r.depth],
                               lines |-> ParsedLines(payload)]
            /\ isCalculating' = FALSE
       ELSE UNCHANGED <<engineLines, isCalculating>>
    /\ Handled("liveResponse", payload, Void, 0, r)
    /\ UNCHANGED <<analysisVars, bookVars, navVars, engineDepth, effectDeps,
                   nodeRequests>>

\* A live-engine request fails: .catch(() => { if (active) ... }).
LiveFailure(r) ==
    /\ r \in liveRequests
    /\ liveRequests' = liveRequests \ {r}
    /\ isCalculating' = IF r.active THEN FALSE ELSE isCalculating
    /\ Handled("liveFailure", [none |-> TRUE], Void, 0, r)
    /\ UNCHANGED <<analysisVars, bookVars, navVars, engineLines, engineDepth,
                   effectDeps, nodeRequests>>

EngineInit == AnalysisIdle /\ BookIdle /\ NavIdle /\ EngineMounted
              /\ nodeRequests = {} /\ handled = NoHandler

\* The panel over the analysis of a two-move game.
EngineNext ==
    \/ \E n \in {2} : LoadData(n)
    \/ \E key \in {"ArrowRight", "ArrowLeft"} : KeyDown(key)
    \/ \E depth \in Depths : DepthChange(depth)
    \/ LiveEngineEffect
    \/ \E r \in liveRequests, payload \in Payloads : LiveResponse(r, payload)
    \/ \E r \in liveRequests : LiveFailure(r)

SpecEngine == EngineInit /\ [][EngineNext]_vars

\* A live-engine request in flight completes: its response arrives or it
\* fails.
Completes ==
    \E r \in liveRequests :
        \/ \E payload \in Payloads : LiveResponse(r, payload)
        \/ LiveFailure(r)

\* The engine panel when React runs every pending effect and every request
\* completes; the user may stop pressing keys at any time.
SpecEngineFair ==
    SpecEngine /\ WF_vars(LiveEngineEffect) /\ WF_vars(Completes)

\* ------------------------------------------------------------------ claims

Plies == Len(history)

ReviewedPlies == 1..Len(reviews)

\* C1: every MoveReview classified Book reports cpLoss = 0, whatever the raw
\* centipawn delta between the evaluations before and after the move was; the
\* same holds of the reviews of the response returned.
C1_BookHasZeroLoss ==
    /\ \A k \in ReviewedPlies :
          reviews[k].classification = "Book" => reviews[k].cpLoss = 0
    /\ response # NoResponse =>
          \A k \in DOMAIN response.moves :
              response.moves[k].classification = "Book"
                  => response.moves[k].cpLoss = 0

\* A returned response holds a Book move whose raw delta was not 0.
C1_Witness ==
    /\ response # NoResponse
    /\ \E k \in DOMAIN response.moves :
          /\ response.moves[k].classification = "Book"
          /\ trail[k].rawLoss > 0

\* C2: book status is monotone: once a ply is not classified Book no later
\* ply is, even when the position after it is in the book set; inBook is true
\* until then and false ever after.
C2_BookMonotone ==
    /\ \A a \in ReviewedPlies : \A b \in ReviewedPlies :
          (a < b /\ reviews[a].classification # "Book")
              => reviews[b].classification # "Book"
    /\ inBook = (\A k \in ReviewedPlies : reviews[k].classification = "Book")

\* A ply whose resulting position is in the book set was reviewed after a ply
\* that was not Book.
C2_Witness ==
    \E a \in ReviewedPlies : \E b \in ReviewedPlies :
        /\ a < b
        /\ reviews[a].classification # "Book"
        /\ isBookPosition(reviews[b].fen, book.positions)
        /\ reviews[b].classification # "Book"

\* C3 (as claimed): bestMoveUci is non-null if and only if the classification
\* is one of Inaccuracy, Mistake, Miss, Blunder, Excellent, Good, for every
\* response of the evaluator.
C3_Original ==
    \A k \in ReviewedPlies :
        (reviews[k].bestMoveUci # Null)
            <=> (reviews[k].classification \in
                    {"Inaccuracy", "Mistake", "Miss", "Blunder", "Excellent", "Good"})

\* C3 (amended): bestMoveUci is null for every other classification, and for
\* those six it is the bestMove the evaluator returned for the position before
\* the move, so it is non-null exactly when the evaluator sent one.
C3_BestMoveForSuboptimal ==
    \A k \in ReviewedPlies :
        IF reviews[k].classification \in
              {"Inaccuracy", "Mistake", "Miss", "Blunder", "Excellent", "Good"}
        THEN reviews[k].bestMoveUci = served[k - 1].bestMove
        ELSE reviews[k].bestMoveUci = Null

\* A Blunder without a best move (the evaluator sent none) next to a
\* sub-optimal move that carries one.
C3_Witness ==
    /\ \E k \in ReviewedPlies :
          /\ reviews[k].classification = "Blunder"
          /\ reviews[k].bestMoveUci = Null
    /\ \E k \in ReviewedPlies :
          /\ reviews[k].classification \in {"Excellent", "Good", "Inaccuracy"}
          /\ reviews[k].bestMoveUci # Null

RECURSIVE SumLoss(_)
SumLoss(moves) ==
    IF moves = <<>> THEN 0 ELSE Head(moves).cpLoss + SumLoss(Tail(moves))

\* max(0, 100 - (sum of the reported cpLoss / number of reviews) / 10) as an
\* exact fraction; 100 when there is no review.
ExpectedAccuracy(moves) ==
    IF Len(moves) = 0 THEN <<100, 1>>
    ELSE IF SumLoss(moves) >= 1000 * Len(moves) THEN <<0, 1>>
    ELSE <<1000 * Len(moves) - SumLoss(moves), 10 * Len(moves)>>

\* C4: the accuracy returned equals max(0, 100 - (sum of the reported cpLoss
\* of all reviews / number of reviews) / 10), Book moves counted in the divisor
\* with loss 0; it lies in [0, 100], and is exactly 100 for a game without
\* moves and for a game whose moves all have cpLoss 0.
C4_Accuracy ==
    response # NoResponse =>
        /\ response.accuracy[2] > 0
        /\ RatEq(response.accuracy, ExpectedAccuracy(response.moves))
        /\ RatLe(<<0, 1>>, response.accuracy)
        /\ RatLe(response.accuracy, <<100, 1>>)
        /\ (\A k \in DOMAIN response.moves : response.moves[k].cpLoss = 0)
              => RatEq(response.accuracy, <<100, 1>>)

\* A response whose accuracy is floored at 0: the average loss exceeds 1000.
C4_Witness ==
    /\ response # NoResponse
    /\ Len(response.moves) > 0
    /\ SumLoss(response.moves) > 1000 * Len(response.moves)
    /\ RatEq(response.accuracy, <<0, 1>>)

\* C5: a game of N moves issues exactly N+1 evaluation requests, one per FEN
\* (start position included), all of them before any result is awaited; in
\* whatever order they complete, slot k of the gather holds the answer to the
\* request for FEN k, and the gathered trace has N+1 entries.
C5_IndexAlignedGather ==
    (pc # "start" /\ error # <<"pgn">>) =>
        /\ DOMAIN fens = 0..Plies
        /\ DOMAIN req = 0..Plies
        /\ \A k \in 0..Plies :
              slots[k] = (IF req[k] = "ok" THEN served[k] ELSE Empty)
        /\ pc \in {"book", "classify", "done"} =>
              /\ DOMAIN evalResults = 0..Plies
              /\ \A k \in 0..Plies :
                    evalResults[k] = served[k] /\ served[k] # Empty

\* The last request completed while the first was still pending.
C5_Witness ==
    /\ pc = "gather"
    /\ Plies >= 2
    /\ req[Plies] = "ok"
    /\ slots[Plies] = served[Plies]
    /\ req[0] = "pending"
    /\ slots[0] = Empty

FailedRequests == {k \in DOMAIN req : req[k] = "failed"}

\* C6: once any evaluation request has failed, analyzeGame fails with the
\* error of a failed request (the first one): the await throws, no response
\* and no review is produced, and the opening book is never asked for,
\* however many other requests succeeded.
C6_EvalFailureIsFatal ==
    FailedRequests # {} =>
        /\ pc \in {"gather", "failed"}
        /\ pc = "gather" => (ENABLED Throw /\ ~ENABLED Resume)
        /\ error \in {<<"eval", k>> : k \in FailedRequests}
        /\ response = NoResponse
        /\ reviews = <<>>
        /\ ~bookAsked
        /\ book = NoBook

\* analyzeGame has failed on one request while all the others succeeded.
C6_Witness ==
    /\ pc = "failed"
    /\ Plies >= 2
    /\ Cardinality(FailedRequests) = 1
    /\ \A k \in DOMAIN req : k \notin FailedRequests => req[k] = "ok"

\* C7: onProgress is called once per completed request with (k, N+1), k
\* counting 1, 2, ... whichever request completed; when all requests succeed
\* the last call is (N+1, N+1) and it is made before classification starts.
C7_ProgressCounts ==
    /\ Len(progress) = Cardinality({k \in DOMAIN req : req[k] = "ok"})
    /\ Len(progress) = done
    /\ \A j \in DOMAIN progress : progress[j] = <<j, Plies + 1>>
    /\ pc \in {"book", "classify", "done"} =>
          /\ Len(progress) = Plies + 1
          /\ progress[Len(progress)] = <<Plies + 1, Plies + 1>>

\* Two calls were made while the request for the start position was pending.
C7_Witness ==
    /\ pc = "gather"
    /\ Len(progress) = 2
    /\ progress[2] = <<2, Plies + 1>>
    /\ req[0] = "pending"

\* The class the ordered table of the specification gives.
TableClass(cpLoss, isSacrifice, isPunishment) ==
    CASE isSacrifice /\ cpLoss <= 15 -> "Brilliant"
      [] isSacrifice /\ 15 < cpLoss /\ cpLoss <= 30 -> "Great"
      [] ~isSacrifice /\ isPunishment /\ cpLoss <= 15 -> "Great"
      [] OTHER ->
            CASE cpLoss = 0 -> "Best"
              [] 0 < cpLoss /\ cpLoss <= 15 -> "Excellent"
              [] 15 < cpLoss /\ cpLoss <= 30 -> "Good"
              [] 30 < cpLoss /\ cpLoss <= 60 -> "Inaccuracy"
              [] 60 < cpLoss /\ cpLoss <= 120 -> "Mistake"
              [] 120 < cpLoss /\ cpLoss <= 250 -> "Miss"
              [] OTHER -> "Blunder"

\* C8: classifyMove returns the class of the ordered table, the overrides
\* first: a sacrifice or a punishment with cpLoss 0 is not Best, and a
\* sacrifice with cpLoss > 30 gets the plain threshold class.
C8_ClassifyTable ==
    call.result # None =>
        /\ call.result = TableClass(call.cpLoss, call.isSacrifice, call.isPunishment)
        /\ (call.cpLoss = 0 /\ (call.isSacrifice \/ call.isPunishment))
              => call.result # "Best"
        /\ (call.isSacrifice /\ call.cpLoss > 30)
              => call.result = TableClass(call.cpLoss, FALSE, FALSE)

\* A sacrifice with cpLoss 0 was classified, and not as Best.
C8_Witness ==
    /\ call.result = "Brilliant"
    /\ call.cpLoss = 0
    /\ call.isSacrifice

\* The value of the most valuable piece of the mover that the opponent can
\* capture in the position after the move.
MostValuableCapture(fenAfter) ==
    MaxOf({PIECE_VALUES[m.captured] :
              m \in {x \in KnownMoves[ChessOf(fenAfter)] : x.captured # "-"}})

\* C9 (as claimed): a non-Book move after which the opponent can capture a
\* piece of the mover with (balance after - value of the most valuable
\* capturable piece - balance before) <= -2 is a sacrifice: Brilliant with
\* cpLoss <= 15, Great with 15 < cpLoss <= 30.
C9_Original ==
    \A k \in ReviewedPlies :
        (/\ reviews[k].classification # "Book"
         /\ MostValuableCapture(reviews[k].fen) > 0
         /\ trail[k].b2 - MostValuableCapture(reviews[k].fen) - trail[k].b1 <= -2)
        => /\ reviews[k].cpLoss <= 15 => reviews[k].classification = "Brilliant"
           /\ (15 < reviews[k].cpLoss /\ reviews[k].cpLoss <= 30)
                 => reviews[k].classification = "Great"

\* The raw loss of ply k (1-based), from the gathered trace.
RawLoss(k) ==
    IF history[k].color = "w"
    THEN Max(0, served[k - 1].evaluation - served[k].evaluation)
    ELSE Max(0, served[k].evaluation - served[k - 1].evaluation)

\* C10 (as claimed): a ply is a punishment exactly when it is not the first,
\* the cpLoss reported in the previous ply's review (0 for a Book ply) is
\* >= 120 and its own cpLoss is <= 15; stated for the plies whose class the
\* punishment test can decide, those not classified Book.
C10_Original ==
    \A k \in ReviewedPlies :
        reviews[k].classification # "Book" =>
            (trail[k].isPunishment
                <=> (k > 1 /\ reviews[k - 1].cpLoss >= 120 /\ reviews[k].cpLoss <= 15))

\* C10 (amended): a ply is a punishment exactly when it is not the first, the
\* previous ply's loss recomputed from the evaluation trace (not zeroed when
\* that ply was classified Book) is >= 120 and its own loss is <= 15; such a
\* ply, when not Book and no sacrifice, is classified Great.
C10_PunishmentFromTrace ==
    \A k \in ReviewedPlies :
        /\ trail[k].isPunishment
              <=> (k > 1 /\ RawLoss(k - 1) >= 120 /\ RawLoss(k) <= 15)
        /\ (trail[k].isPunishment /\ reviews[k].classification # "Book"
               /\ ~trail[k].isSacrifice)
              => reviews[k].classification = "Great"

\* A ply punishes a Book ply whose raw loss was >= 120 and is classified
\* Great.
C10_Witness ==
    \E k \in ReviewedPlies :
        /\ k > 1
        /\ reviews[k - 1].classification = "Book"
        /\ reviews[k - 1].cpLoss = 0
        /\ RawLoss(k - 1) >= 120
        /\ trail[k].isPunishment
        /\ reviews[k].classification = "Great"

\* The evaluation delta of reviewed ply k against its mover, read from the
\* gathered trace.
Delta(k) ==
    IF (k - 1) % 2 = 0
    THEN evalResults[k - 1].evaluation - evalResults[k].evaluation
    ELSE evalResults[k].evaluation - evalResults[k - 1].evaluation

\* C11: for every non-Book ply the reported cpLoss is max(0, trace[i] -
\* trace[i+1]) when White moved and max(0, trace[i+1] - trace[i]) when Black
\* moved; no reported cpLoss is negative; the evaluation of a review is the
\* trace entry after its move.
C11_CpLossFromTrace ==
    \A k \in ReviewedPlies :
        /\ reviews[k].isWhite = ((k - 1) % 2 = 0)
        /\ reviews[k].cpLoss >= 0
        /\ reviews[k].evaluation = evalResults[k].evaluation
        /\ reviews[k].classification # "Book" =>
               reviews[k].cpLoss = (IF Delta(k) > 0 THEN Delta(k) ELSE 0)

\* A non-Book ply of Black reports a positive loss and a non-Book ply whose
\* delta is negative reports 0.
C11_Witness ==
    /\ \E k \in ReviewedPlies :
          /\ ~reviews[k].isWhite
          /\ reviews[k].classification # "Book"
          /\ reviews[k].cpLoss > 0
    /\ \E k \in ReviewedPlies :
          /\ reviews[k].classification # "Book"
          /\ Delta(k) < 0
          /\ reviews[k].cpLoss = 0

\* The PGNs whose replay from the start position stops before their last
\* token.
IllegalPgns == {p \in Pgns : Len(Replay(NewChess, p)) <= Len(p)}

\* C12: when the PGN holds a token that is no legal move, analyzeGame fails
\* before anything else happens: no evaluation request, no progress call, no
\* opening-book load, no review and no response.
C12_ParseFailureIsEarly ==
    (pc # "start" /\ pgn \in IllegalPgns) =>
        /\ pc = "failed"
        /\ error = <<"pgn">>
        /\ req = <<>>
        /\ served = <<>>
        /\ done = 0
        /\ progress = <<>>
        /\ ~bookAsked
        /\ book = NoBook
        /\ reviews = <<>>
        /\ response = NoResponse

\* analyzeGame has failed on a PGN whose first move is legal and whose second
\* is not.
C12_Witness ==
    /\ pc = "failed"
    /\ error = <<"pgn">>
    /\ Len(pgn) = 2
    /\ pgn \in IllegalPgns
    /\ <<pgn[1]>> \notin IllegalPgns

TablesOf(state) == {f \in Range(files) : part[f] = state}

CallersIn(state) == {c \in Callers : caller[c].state = state}

\* C13: getOpeningBook is single-flight and cached.  Whenever and however
\* often it is called, loadBook is started at most once and no table is
\* fetched twice; every caller that is resumed holds the one cached set, and
\* no caller is resumed while another is rejected.
C13_SingleFlight ==
    /\ loads <= 1
    /\ \A f \in Range(files) : fetched[f] <= 1
    /\ Cardinality({c \in Callers : caller[c].path = "first"}) <= 1
    /\ \A c \in CallersIn("resumed") :
          /\ bookPositions.loaded
          /\ caller[c].got = bookPositions.positions
    /\ \A c1, c2 \in CallersIn("resumed") : caller[c1].got = caller[c2].got
    /\ CallersIn("resumed") = {} \/ CallersIn("rejected") = {}

\* One call started the load, one joined it in flight and one came after it
\* had completed; all three hold the same non-empty set and each table was
\* fetched once.
C13_Witness ==
    /\ {caller[c].path : c \in Callers} = {"first", "inflight", "cached"}
    /\ CallersIn("resumed") = Callers
    /\ \A c \in Callers : caller[c].got = FilePositions["a"] \cup FilePositions["c"]
    /\ FilePositions["c"] # {}
    /\ loads = 1
    /\ \A f \in Range(files) : fetched[f] = 1

\* C14 (as claimed): when one table fails to load and all others load, the
\* book load completes with the positions of the tables that loaded.
C14_Original ==
    (Cardinality(TablesOf("failed")) = 1 /\ Cardinality(TablesOf("done")) = Len(files) - 1)
        => /\ loadingPromise = "fulfilled"
           /\ bookPositions.loaded
           /\ bookPositions.positions = positions

\* C15 (as claimed): when every table fails to load, no analyzeGame call that
\* asked for the book is aborted.
C15_Original ==
    TablesOf("failed") = Range(files) => CallersIn("rejected") = {}

\* The number of reviewed moves.
N == Len(data.moves)

\* The state the last operation was called in.
Before == last.before

\* The node a (san, fen) argument pair creates.
NewNode == [san |-> last.arg.san, fen |-> last.arg.fen, eval |-> NoEval]

\* C16: goToMove(k), called in any state and for any integer k, leaves the
\* navigator in MainLine with currentMoveIndex = min(max(k, 0), N).
C16_GoToMoveClamps ==
    last.op = "goToMove" =>
        /\ ~isVariation
        /\ currentMoveIndex =
              (IF last.arg.index < 0 THEN 0
               ELSE IF last.arg.index > N THEN N ELSE last.arg.index)

\* goToMove was called in Exploration with an index past the end of a main
\* line that has moves.
C16_Witness ==
    /\ last.op = "goToMove"
    /\ Before.isVariation
    /\ N >= 1
    /\ last.arg.index > N
    /\ currentMoveIndex = N
    /\ ~isVariation

C18_PrevMove ==
    /\ isVariation => currentMoveIndex = variationBaseIndex
    /\ variationBaseIndex # Before.variationBaseIndex =>
          /\ last.op \in {"startVariation", "loadVariation"}
          /\ isVariation
          /\ variationBaseIndex = Before.currentMoveIndex
    /\ last.op = "prevMove" =>
          /\ variationMoves = Before.variationMoves
          /\ variationBaseIndex = Before.variationBaseIndex
          /\ (Before.isVariation /\ Before.variationIndex > 0) =>
                /\ isVariation
                /\ variationIndex = Before.variationIndex - 1
                /\ currentMoveIndex = Before.currentMoveIndex
                /\ last.value = "undo"
          /\ (Before.isVariation /\ Before.variationIndex = 0) =>
                /\ ~isVariation
                /\ currentMoveIndex = variationBaseIndex
                /\ currentMoveIndex = Before.currentMoveIndex
                /\ variationIndex = Before.variationIndex
                /\ last.value = "exit-variation"
          /\ (~Before.isVariation /\ Before.currentMoveIndex > 0) =>
                /\ ~isVariation
                /\ currentMoveIndex = Before.currentMoveIndex - 1
                /\ variationIndex = Before.variationIndex
                /\ last.value = "undo"
          /\ (~Before.isVariation /\ Before.currentMoveIndex = 0) =>
                /\ ~isVariation
                /\ currentMoveIndex = 0
                /\ variationIndex = Before.variationIndex
                /\ last.value = "noop"

\* A branch of two nodes, created at a main-line index above 0, was backed
\* out of from its first node.
C18_Witness ==
    /\ last.op = "prevMove"
    /\ last.value = "exit-variation"
    /\ Before.isVariation
    /\ Before.variationIndex = 0
    /\ Len(variationMoves) = 2
    /\ variationBaseIndex >= 1
    /\ currentMoveIndex = variationBaseIndex
    /\ ~isVariation

\* C19: startVariation(san, fen) called at main-line index i yields
\* Exploration with baseIndex = i, cursor 0 and exactly one node {san, fen,
\* evaluation unknown}, whatever nodes an earlier exploration left behind.
C19_StartVariation ==
    last.op = "startVariation" =>
        /\ isVariation
        /\ variationBaseIndex = Before.currentMoveIndex
        /\ currentMoveIndex = Before.currentMoveIndex
        /\ variationMoves = <<NewNode>>
        /\ variationIndex = 0

\* startVariation was called in MainLine, above index 0, while the nodes of
\* an exploration line that was left were still stored.
C19_Witness ==
    /\ last.op = "startVariation"
    /\ ~Before.isVariation
    /\ Len(Before.variationMoves) = 2
    /\ Before.currentMoveIndex >= 1
    /\ Before.variationBaseIndex # Before.currentMoveIndex
    /\ variationMoves = <<NewNode>>
    /\ NewNode.san # Before.variationMoves[1].san

Entered(s, node) ==
    [s EXCEPT !.isVariation = TRUE, !.variationBaseIndex = s.currentMoveIndex,
              !.variationMoves = <<node>>, !.variationIndex = 0]

\* The navigator state extendVariation(node.san, node.fen) leaves, called in
\* state s.
ExtendedBy(s, node) ==
    [s EXCEPT !.variationMoves =
                  SubSeq(s.variationMoves, 1,
                         IF s.variationIndex + 1 <= Len(s.variationMoves)
                         THEN s.variationIndex + 1 ELSE Len(s.variationMoves))
                  \o <<node>>,
              !.variationIndex = s.variationIndex + 1]

\* extendVariation called once per node of seq, in order.
RECURSIVE ExtendedByAll(_, _)
ExtendedByAll(s, seq) ==
    IF seq = <<>> THEN s
    ELSE ExtendedByAll(Only({ExtendedBy(s, Head(seq))}), Tail(seq))

\* C21: loadVariation(seq) for a non-empty seq.  Called outside Exploration it
\* leaves the state startVariation on seq[0] followed by extendVariation on
\* each further node leaves: baseIndex = the current index, nodes = seq,
\* cursor = len(seq) - 1.  Called in Exploration it leaves the state
\* extendVariation applied once per node leaves: nodes = the old nodes up to
\* the cursor followed by seq, cursor = old cursor + len(seq), baseIndex
\* unchanged.
C21_LoadVariation ==
    (last.op = "loadVariation" /\ last.arg.sequence # <<>>) =>
        LET seq == last.arg.sequence
        IN  IF ~Before.isVariation
            THEN /\ Snapshot = ExtendedByAll(Entered(Before, Head(seq)), Tail(seq))
                 /\ isVariation
                 /\ variationBaseIndex = Before.currentMoveIndex
                 /\ variationMoves = seq
                 /\ variationIndex = Len(seq) - 1
            ELSE /\ Snapshot = ExtendedByAll(Before, seq)
                 /\ isVariation
                 /\ variationMoves =
                        SubSeq(Before.variationMoves, 1,
                               Len(variationMoves) - Len(seq)) \o seq
                 /\ Len(variationMoves) - Len(seq) <= Before.variationIndex + 1
                 /\ (Before.variationIndex < Len(Before.variationMoves) =>
                        Len(variationMoves) = Before.variationIndex + 1 + Len(seq))
                 /\ variationIndex = Before.variationIndex + Len(seq)
                 /\ variationBaseIndex = Before.variationBaseIndex

\* A sequence of one node was loaded onto the first node of an exploration
\* line of two nodes: the second node was discarded for it.
C21_Witness ==
    /\ last.op = "loadVariation"
    /\ Before.isVariation
    /\ Len(Before.variationMoves) = 2
    /\ Before.variationIndex = 0
    /\ Len(last.arg.sequence) = 1
    /\ variationMoves = <<Before.variationMoves[1]>> \o last.arg.sequence
    /\ variationMoves # Before.variationMoves
    /\ variationIndex = 1

\* C23: updateVariationEval(idx, value) changes only the evaluation of node
\* idx: cursor, isVariation, baseIndex, main-line index, the number and order
\* of the nodes and every other node's san, fen and evaluation are unchanged;
\* for an idx that is not the index of a node the call changes nothing and
\* returns normally.
C23_UpdateVariationEval ==
    last.op = "updateVariationEval" =>
        LET idx == last.arg.idx
            exists == idx >= 0 /\ idx < Len(Before.variationMoves)
        IN  /\ last.value = Void
            /\ variationIndex = Before.variationIndex
            /\ isVariation = Before.isVariation
            /\ variationBaseIndex = Before.variationBaseIndex
            /\ currentMoveIndex = Before.currentMoveIndex
            /\ data = Before.data
            /\ Len(variationMoves) = Len(Before.variationMoves)
            /\ \A k \in 1..Len(variationMoves) :
                  /\ variationMoves[k].san = Before.variationMoves[k].san
                  /\ variationMoves[k].fen = Before.variationMoves[k].fen
                  /\ k # idx + 1 => variationMoves[k] = Before.variationMoves[k]
            /\ exists =>
                  variationMoves[idx + 1].eval =
                      [known |-> TRUE, value |-> last.arg.evalVal]
            /\ ~exists => Snapshot = Before

\* The evaluation of the first of two nodes arrived while the cursor stood on
\* the second.
C23_Witness ==
    /\ last.op = "updateVariationEval"
    /\ last.arg.idx = 0
    /\ isVariation
    /\ Len(variationMoves) = 2
    /\ variationIndex = 1
    /\ Before.variationMoves[1].eval = NoEval
    /\ variationMoves[1].eval.known
    /\ variationMoves[2].eval = NoEval

\* C26 (as claimed): in every reachable state that is in Exploration the node
\* list is not empty and the cursor designates one of its nodes.
C26_Original ==
    isVariation =>
        /\ variationMoves # <<>>
        /\ 0 <= variationIndex
        /\ variationIndex <= Len(variationMoves) - 1

\* C28: classification starts only after all N+1 evaluation results are
\* available: while any evaluation request is pending no MoveReview exists and
\* the opening book was not asked for; the reviews are produced in ply order,
\* one per played move, and the response holds exactly one per move.
C28_ClassifyAfterGather ==
    /\ (\E k \in DOMAIN req : req[k] = "pending") =>
           /\ reviews = <<>>
           /\ ~bookAsked
           /\ ~response.returned
    /\ (bookAsked \/ reviews # <<>>) =>
           /\ DOMAIN req = 0..Len(history)
           /\ \A k \in DOMAIN req : req[k] = "ok" /\ evalResults[k] = served[k]
    /\ Len(reviews) = i
    /\ Len(reviews) <= Len(history)
    /\ \A j \in 1..Len(reviews) :
           /\ reviews[j].san = history[j].san
           /\ reviews[j].fenBefore = fens[j - 1]
           /\ reviews[j].fen = fens[j]
           /\ reviews[j].evaluation = served[j].evaluation
    /\ response.returned =>
           /\ response.moves = reviews
           /\ Len(response.moves) = Len(history)

\* A game of three moves was reviewed and returned after its four evaluations
\* arrived.
C28_Witness ==
    /\ response.returned
    /\ Len(response.moves) = 3
    /\ Len(progress) = 4
    /\ \A j \in 1..3 : response.moves[j].san = pgn[j]

\* The reviewed moves the page was loaded with.
Loaded == SubSeq(ReviewedGame, 1, N)

\* C24: no navigation or exploration operation changes the main line:
\* mainFens, rawMoves and the main-line evaluations stay the values derived
\* from the analysis response, whatever sequence of goToMove, nextMove,
\* prevMove, exitVariation, startVariation, extendVariation, loadVariation,
\* updateVariationEval, goToVariationMove and flipBoard was called.
C24_MainLineUntouched ==
    /\ last.op \notin {"none", "setData"} => data = Before.data
    /\ N <= Len(ReviewedGame)
    /\ rawMoves = Loaded
    /\ Len(mainFens) = N + 1
    /\ mainFens[1] = START_FEN
    /\ \A k \in 1..N : mainFens[k + 1] = ReviewedGame[k].fen
    /\ Len(mainEvaluations) = N + 1
    /\ mainEvaluations[1] = 0
    /\ \A k \in 1..N : mainEvaluations[k + 1] = ReviewedGame[k].evaluation

\* The board was flipped while the cursor stood on the second node of an
\* exploration line whose first node is evaluated, over a main line of two
\* moves.
C24_Witness ==
    /\ last.op = "flipBoard"
    /\ orientation = "black"
    /\ N = 2
    /\ isVariation
    /\ Len(variationMoves) = 2
    /\ variationIndex = 1
    /\ variationMoves[1].eval.known
    /\ variationBaseIndex = 1
    /\ mainFens = <<START_FEN, "fen1", "fen2">>

\* Whether the evaluation of some exploration node is still outstanding.
EvaluationPending == \E k \in 1..Len(variationMoves) : variationMoves[k].eval = NoEval

\* C30: currentEval is always a number: in Exploration the evaluation of the
\* cursor's node, or 0 while that evaluation is unknown or the cursor
\* designates no node; on the main line the evaluation at the current index,
\* 0 at the start position.  A pending node evaluation blocks no navigation:
\* nextMove, prevMove, goToMove and extendVariation can be called while an
\* evaluation is outstanding.
C30_CurrentEval ==
    /\ currentEval \in Int
    /\ isVariation =>
           IF variationIndex >= 0 /\ variationIndex < Len(variationMoves)
           THEN LET node == variationMoves[variationIndex + 1]
                IN  IF node.eval = NoEval THEN currentEval = 0
                    ELSE currentEval = node.eval.value
           ELSE currentEval = 0
    /\ ~isVariation =>
           /\ currentMoveIndex \in 0..N
           /\ currentEval = (IF currentMoveIndex = 0 THEN 0
                             ELSE ReviewedGame[currentMoveIndex].evaluation)
    /\ EvaluationPending =>
           /\ ENABLED nextMove
           /\ ENABLED prevMove
           /\ \A index \in -1..(MaxMoves + 1) : ENABLED goToMove(index)
           /\ (Min(variationIndex + 1, Len(variationMoves)) + 1 <= MaxNodes =>
                  \A d \in Drops : ENABLED extendVariation(d.san, d.fen))

\* In Exploration the cursor stands on a node whose evaluation is outstanding
\* while another node's evaluation has arrived, over a main line whose
\* current move has a non-zero evaluation.
C30_Witness ==
    /\ isVariation
    /\ Len(variationMoves) = 2
    /\ variationIndex = 1
    /\ variationMoves[2].eval = NoEval
    /\ variationMoves[1].eval.known
    /\ variationMoves[1].eval.value # 0
    /\ currentMoveIndex = 1
    /\ mainEvaluations[currentMoveIndex + 1] # 0
    /\ currentEval = 0

\* The navigator's line state.
LineState ==
    <<currentMoveIndex, isVariation, variationBaseIndex, variationMoves, variationIndex>>

\* C25: an illegal board drop (no target square, or a move the rules adapter
\* rejects) is a no-op: onPieceDrop returns false, the navigator state is
\* unchanged and no evaluation request is issued for it.
C25_IllegalDropIsNoOp ==
    [][(/\ handled'.handler = "onPieceDrop"
        /\ (~handled'.arg.target \/ ~handled'.arg.legal)) =>
           /\ handled'.returned = FALSE
           /\ handled'.issued = 0
           /\ LineState' = LineState
           /\ data' = data
           /\ nodeRequests' = nodeRequests]_vars

\* An illegal move was dropped on the board in Exploration while an
\* evaluation was outstanding.
C25_Witness ==
    /\ handled.handler = "onPieceDrop"
    /\ handled.arg.target
    /\ ~handled.arg.legal
    /\ handled.returned = FALSE
    /\ isVariation
    /\ Len(variationMoves) = 2
    /\ nodeRequests # {}

\* C22 (as claimed): when the evaluation requested for a new exploration node
\* arrives, it is stored on that very node and never on another: every node
\* the response changed holds the position the evaluation was requested for.
C22_Original ==
    (handled.handler = "nodeEvalResponse" /\ last.op = "updateVariationEval") =>
        \A k \in 1..Len(variationMoves) :
            variationMoves[k] # Before.variationMoves[k] =>
                variationMoves[k].fen = handled.request.fen

\* C29 (as claimed): every handler that creates exploration nodes issues one
\* evaluation request per node it created: one for a board drop, one per
\* node of the sequence for a click on an engine line.
C29_Original ==
    /\ (handled.handler = "onPieceDrop" /\ handled.returned = TRUE) =>
           handled.issued = 1
    /\ handled.handler = "engineLineClick" =>
           handled.issued = Len(last.arg.sequence)

Toggles == <<orientation, showTimestamps>>

\* C31: orientation and the show-clocks flag are independent of line state:
\* flipBoard and setShowTimestamps change only their own flag (the loaded
\* analysis, main-line index, isVariation, baseIndex, nodes and cursor stay),
\* no navigation or exploration operation changes either flag, and a
\* flipBoard that follows a flipBoard restores the orientation of before the
\* first.
C31_TogglesIndependent ==
    [][/\ last'.op = "flipBoard" =>
              /\ orientation' # orientation
              /\ orientation' \in {"white", "black"}
              /\ showTimestamps' = showTimestamps
              /\ LineState' = LineState
              /\ data' = data
       /\ last'.op = "setShowTimestamps" =>
              /\ showTimestamps' = last'.arg.value
              /\ orientation' = orientation
              /\ LineState' = LineState
              /\ data' = data
       /\ last'.op \notin {"flipBoard", "setShowTimestamps"} => Toggles' = Toggles
       /\ (last.op = "flipBoard" /\ last'.op = "flipBoard") =>
              orientation' = Before.orientation]_vars

\* The board was flipped back to white, right after a flip to black, while
\* the clocks were shown and the cursor stood on the second node of an
\* exploration line.
C31_Witness ==
    /\ last.op = "flipBoard"
    /\ orientation = "white"
    /\ showTimestamps
    /\ isVariation
    /\ Len(variationMoves) = 2
    /\ variationIndex = 1
    /\ N = MaxMoves

\* C32: a bestMoveUci carried by the review of a ply is the best move the
\* evaluator returned for the position before that ply (gathered result i for
\* ply i, counted from 0), never the one returned for the position after it,
\* whatever the order in which the requests completed.
C32_BestMoveOfPreMove ==
    \A k \in ReviewedPlies :
        reviews[k].bestMoveUci # Null =>
            /\ reviews[k].fenBefore = fens[k - 1]
            /\ reviews[k].bestMoveUci = <<"best", k - 1>>
            /\ reviews[k].bestMoveUci = evalResults[k - 1].bestMove
            /\ reviews[k].bestMoveUci # evalResults[k].bestMove

\* A returned analysis in which the review of the second ply carries a best
\* move while the evaluator also sent one for the position after that ply.
C32_Witness ==
    /\ pc = "done"
    /\ Len(reviews) >= 2
    /\ reviews[2].bestMoveUci = <<"best", 1>>
    /\ evalResults[2].bestMove = <<"best", 2>>
    /\ evalResults[1].evaluation # evalResults[2].evaluation

\* The result tokens a reference line may end with.
ResultTokens == {"1-0", "0-1", "1/2-1/2", "*"}

\* Whether the first k tokens are legal moves, played one after the other
\* from the start position.
Playable(tokens, k) == Len(Replay(NewChess, SubSeq(tokens, 1, k))) = k + 1

\* The index of the first token that is a result token or no legal move, one
\* past the end when there is none.
StopIndex(tokens) ==
    CHOOSE k \in 1..(Len(tokens) + 1) :
        /\ Playable(tokens, k - 1)
        /\ \A j \in 1..(k - 1) : tokens[j] \notin ResultTokens
        /\ \/ k = Len(tokens) + 1
           \/ tokens[k] \in ResultTokens
           \/ ~Playable(tokens, k)

\* The positions a reference line stands for: the start position and the one
\* after each move before the stop.
ExpectedOfLine(words) ==
    IF words = <<>> THEN {}
    ELSE {normalizeFen(Fen(Replay(NewChess, SubSeq(Tokens(words), 1, j))[j + 1])) :
             j \in 0..(StopIndex(Tokens(words)) - 1)}

ExpectedPositions == [words \in UNION Tables |-> ExpectedOfLine(words)]

\* The lines of the tables whose tasks have run to their end.
LinesRead == UNION {read[f] : f \in TablesOf("done")}

\* C33: while the book is built, the replay of a reference line stops at the
\* first result token (1-0, 0-1, 1/2-1/2, *) or at the first token that is no
\* legal move and adds no position for it; the positions recorded before it
\* are kept, and every other line of the table and of the other tables is
\* replayed as well: the set holds exactly the positions before the stop of
\* each line read, and that is the set published.
C33_ReplayStops ==
    /\ positions = UNION {ExpectedPositions[words] : words \in LinesRead}
    /\ bookPositions.loaded => bookPositions.positions = positions

\* The book was loaded from a table with a line cut by 1/2-1/2 and a line
\* with an illegal second token, and from a table with a line cut by 1-0 and
\* one cut by *; the caller holds the six positions before the stops.
C33_Witness ==
    /\ caller[1].state = "resumed"
    /\ read["a"] = {<<"e3", "e6", "1/2-1/2", "Nf3">>, <<"e4", "e4", "e5">>}
    /\ read["b"] = {<<"1.", "e4", "e5", "1-0", "Nf3">>, <<"Nf3", "*", "e6">>}
    /\ \A f \in {"c", "d", "e"} : read[f] = {}
    /\ Cardinality(caller[1].got) = 6

\* C34: the opening-book set is write-once.  Once it is published no position
\* is added to or removed from it, neither in the cache nor through
\* loadBook's own reference to the same set; it is published only when every
\* table's task has run to its end, and a caller that is resumed holds the
\* complete set.
C34_WriteOnce ==
    [][/\ bookPositions.loaded =>
              /\ bookPositions' = bookPositions
              /\ positions' = positions
       /\ bookPositions'.loaded =>
              /\ TablesOf("done")' = Range(files)
              /\ loadingPromise' = "fulfilled"
              /\ bookPositions'.positions = positions'
       /\ \A c \in Callers :
              caller'[c].state = "resumed" =>
                  /\ bookPositions'.loaded
                  /\ caller'[c].got = positions']_vars

\* The set built from both tables that hold lines is published; one caller was
\* resumed with it while another, which joined the load in flight, still
\* waits.
C34_Witness ==
    /\ bookPositions.loaded
    /\ read["a"] = FileLines["a"]
    /\ read["c"] = FileLines["c"]
    /\ \E c \in Callers :
          /\ caller[c].state = "resumed"
          /\ caller[c].got = FilePositions["a"] \cup FilePositions["c"]
    /\ \E c \in Callers :
          /\ caller[c].state = "waiting"
          /\ caller[c].path = "inflight"

\* C37: a failed load of the opening book is cached for good.  Once the load
\* promise is rejected it stays the rejected promise, bookPositions stays
\* null, no load is started and no table fetched again; every call made from
\* then on returns that rejected promise, and no caller is ever resumed with
\* a set.
C37_FailureCached ==
    [][loadingPromise = "rejected" =>
           /\ loadingPromise' = "rejected"
           /\ ~bookPositions'.loaded
           /\ loads' = loads
           /\ fetched' = fetched
           /\ \A c \in Callers :
                  /\ caller'[c].state # "resumed"
                  /\ (caller[c].state = "idle" /\ caller'[c].state # "idle") =>
                         /\ caller'[c].path = "inflight"
                         /\ caller'[c].promise = "rejected"]_vars

\* The call that started the load was rejected, and so was a call made after
\* the load had failed; the load was started once and one table read after
\* the failure.
C37_Witness ==
    /\ loadingPromise = "rejected"
    /\ ~bookPositions.loaded
    /\ loads = 1
    /\ \E c \in Callers :
          /\ caller[c].path = "first"
          /\ caller[c].state = "rejected"
    /\ \E c \in Callers :
          /\ caller[c].promise = "rejected"
          /\ caller[c].state = "rejected"
    /\ TablesOf("done") # {}

\* The captures the side to move has in each position.
KnownCaptures == [c \in KnownPositions |-> {m \in KnownMoves[c] : m.captured # "-"}]

\* The colour of the piece a capture takes.
TakenColor(m) == Other(m.color)

\* C36: maxMaterialLossAfterMove returns 0 whenever every capture the side to
\* move has in the position after the ply takes a piece of the mover's
\* colour, and isSacrifice is then (balanceAfter - balanceBefore) <= -2.  In
\* analyzeGame every such capture does.
C36_MaxLossIsZero ==
    \A k \in 1..Len(trail) :
        LET after == ChessOf(reviews[k].fen)
            mover == IF reviews[k].isWhite THEN "w" ELSE "b"
        IN  /\ \A m \in KnownCaptures[after] : TakenColor(m) = mover
            /\ trail[k].maxLoss = 0
            /\ trail[k].isSacrifice <=> (trail[k].b2 - trail[k].b1 <= -2)

\* Black's knight went to a6, where White's bishop can take it: the loss
\* counted for the ply is 0 and the ply is no sacrifice.
C36_Witness ==
    /\ Len(trail) >= 2
    /\ reviews[2].san = "Na6"
    /\ \E m \in KnownCaptures[ChessOf(reviews[2].fen)] : m.captured = "n"
    /\ trail[2].maxLoss = 0
    /\ ~trail[2].isSacrifice

\* C35: in every state of the navigator 0 <= currentMoveIndex <= N, and in
\* Exploration currentMoveIndex = variationBaseIndex: no operation moves the
\* main-line pointer while a branch is active.
C35_PointerAnchored ==
    /\ 0 <= currentMoveIndex
    /\ currentMoveIndex <= N
    /\ isVariation => currentMoveIndex = variationBaseIndex

\* A step forward inside an exploration line that branched off after the
\* first move of a main line of MaxMoves moves.
C35_Witness ==
    /\ last.op = "nextMove"
    /\ Before.isVariation
    /\ isVariation
    /\ variationIndex = Before.variationIndex + 1
    /\ N = MaxMoves
    /\ currentMoveIndex = 1
    /\ variationBaseIndex = 1

\* The live-engine request sent last has just completed: with lines, with a
\* response lacking pvLines, or with an error.
LatestCompleted ==
    /\ handled.handler \in {"liveResponse", "liveFailure"}
    /\ handled.request.active

\* C38 (as claimed): whenever the most recent live-engine request completes,
\* isCalculating eventually becomes false.
C38_Original == LatestCompleted ~> ~isCalculating

\* The last operation returned the navigator to the main line: exitVariation,
\* or prevMove at the first node of the exploration line.
ReturnedToMainLine ==
    \/ last.op = "exitVariation"
    \/ last.op = "prevMove" /\ last.value = "exit-variation"

\* C39: exitVariation and prevMove's exit-variation outcome only clear
\* isVariation: the nodes, cursor and baseIndex of the line left behind are
\* retained and the main-line pointer stays, currentFen is again
\* mainFens[currentMoveIndex]; and in every state currentMoveData is null in
\* Exploration or at main index 0 and the review of move currentMoveIndex
\* otherwise.
C39_ExitOnlyClearsFlag ==
    /\ ReturnedToMainLine =>
           /\ ~isVariation
           /\ variationMoves = Before.variationMoves
           /\ variationIndex = Before.variationIndex
           /\ variationBaseIndex = Before.variationBaseIndex
           /\ currentMoveIndex = Before.currentMoveIndex
           /\ data = Before.data
           /\ orientation = Before.orientation
           /\ showTimestamps = Before.showTimestamps
           /\ currentFen = mainFens[currentMoveIndex + 1]
    /\ currentMoveData =
           IF isVariation \/ currentMoveIndex = 0 THEN Null
           ELSE rawMoves[currentMoveIndex]

\* exitVariation left an exploration line of two nodes with the cursor on its
\* second node; the nodes are still held and the board shows a reviewed move
\* of the main line again.
C39_Witness ==
    /\ last.op = "exitVariation"
    /\ Before.isVariation
    /\ Len(variationMoves) = 2
    /\ variationIndex = 1
    /\ currentMoveIndex > 0
    /\ currentMoveData = rawMoves[currentMoveIndex]
    /\ currentFen # Before.variationMoves[2].fen

\* prevMove at the first node of an exploration line left it.
C39_PrevMoveExits ==
    /\ last.op = "prevMove" /\ last.value = "exit-variation"
    /\ Before.isVariation
    /\ variationMoves # <<>>
    /\ ~isVariation

====
